---- MODULE Spec2Model ----
(***************************************************************************)
(* Model of the review pipeline of Claude-Spec-Critic:                     *)
(*   src/src/pipeline.py   run_review (the orchestrator)                   *)
(*   src/src/tokenizer.py  analyze_token_usage (the admission data)        *)
(*   src/src/reviewer.py   review_specs, parse_findings (the invoker)      *)
(*   src/src/report.py     generate_report (where the report is saved)     *)
(* One run of run_review is a process whose position is pc; the run        *)
(* directory is a small file system (dirs, files) addressed by paths       *)
(* relative to the run directory.                                          *)
(***************************************************************************)
EXTENDS Integers, Sequences, FiniteSets, TLC

VARIABLES
  inputDir,      \* the entries of input_dir: file name -> kind of entry
  dry_run,       \* run_review's dry_run argument
  api_key_set,   \* ANTHROPIC_API_KEY is present in the environment
  pc,            \* position of run_review / review_specs
  exc,           \* class of the exception run_review raised, "None" if none
  dirs,          \* directories that exist, as paths below the run directory
  files,         \* files that exist: path below the run directory -> content
  docx_files,    \* run_review: the sorted list of eligible files
  specs,         \* run_review: ExtractedSpec list
  leed_alerts,   \* run_review: aggregated LEED alerts
  placeholder_alerts, \* run_review: aggregated placeholder alerts
  token_summary, \* run_review: <<TokenSummary>>, <<>> before estimation
  combined,      \* run_review: the combined text
  progressLog,   \* percentages passed to progress(), in hundredths
  result,        \* review_specs: <<ReviewResult>>, <<>> before the call
  attempt,       \* review_specs: loop index of the next attempt
  last_error,    \* review_specs: last transient error
  apiCalls,      \* outbound API calls, one entry per call: its outcome
  sleeps,        \* time.sleep calls of review_specs, in seconds
  parses,        \* number of calls of parse_findings
  outputs,       \* the PipelineOutputs returned, <<>> if none
  now,           \* the wall clock, in whole seconds (datetime.now())
  runDirOf,      \* run -> the run directory _create_run_dir returned
  dirOwner,      \* run directory under output_dir -> the run that made it
  written,       \* artifacts written under output_dir: [dir, name, run]
  docs,          \* texts handed to the text functions: [filename, content]
  leedOut,       \* <<result of detect_leed_references>>, <<>> before the call
  placeholderOut, \* <<result of detect_placeholders>>, <<>> before the call
  combinedOut,   \* <<result of _combine_specs>>, <<>> before the call
  pipelineFeed,  \* <<what run_review computes from docs>>, <<>> before it runs
  cliFeed,       \* <<what the CLI review command computes from docs>>
  reportFindings, \* the findings of the ReviewResult handed to generate_report
  reportLeed,    \* the leed_alerts handed to generate_report
  reportPlaceholder, \* the placeholder_alerts handed to generate_report
  reportDoc,     \* <<the document generate_report builds>>, <<>> before
  is_processing, \* SpecReviewApp.is_processing
  run_button,    \* the Run button: [state, enabled]
  api_key_entry, \* the text of the API key entry
  environKey,    \* os.environ["ANTHROPIC_API_KEY"]
  reviewThreads, \* the review worker threads started: [state, key]
  tkQueue,       \* callbacks handed to self.after, oldest first
  folders,       \* folder -> what it holds
  input_dir,     \* SpecReviewApp.input_dir: <<folder>>, <<>> before a choice
  analyzeThreads, \* the analysis threads started: [folder, pc, overlap]
  loaded_file_data, \* SpecReviewApp._loaded_file_data
  file_list_panel, \* FileListPanel: [files, selected]
  token_gauge    \* TokenGauge: [token_count, file_count]

vars == <<inputDir, dry_run, api_key_set, pc, exc, dirs, files, docx_files,
          specs, leed_alerts, placeholder_alerts, token_summary, combined,
          progressLog, result, attempt, last_error, apiCalls, sleeps, parses,
          outputs, now, runDirOf, dirOwner, written, docs, leedOut,
          placeholderOut, combinedOut, pipelineFeed, cliFeed,
          reportFindings, reportLeed, reportPlaceholder, reportDoc,
          is_processing, run_button, api_key_entry, environKey, reviewThreads,
          tkQueue, folders, input_dir, analyzeThreads, loaded_file_data,
          file_list_panel, token_gauge>>

----------------------------------------------------------------------------
(* Bounds of the model *)

MaxFiles == 2

\* Runs of run_review that share one output_dir, and how far the clock runs
MaxRuns == 2

MaxClock == 2

----------------------------------------------------------------------------
(* Program constants *)

MAX_CONTEXT_TOKENS == 200000

SAFETY_BUFFER == 50000

RECOMMENDED_MAX == MAX_CONTEXT_TOKENS - SAFETY_BUFFER

max_retries == 3

MODEL_SONNET == "claude-sonnet-4-5-20250929"

MODEL_OPUS == "claude-opus-4-5-20251101"

\* pipeline.py imports this name from reviewer.py, which does not define it.
MODEL_OPUS_45 == "reviewer.MODEL_OPUS_45"

NoneVal == "None"

----------------------------------------------------------------------------
(* Paths below the run directory *)

RunDir == <<>>

Join(dir, name) == Append(dir, name)

Parent(p) == SubSeq(p, 1, Len(p) - 1)

\* Path.write_text / Document.save: a file can be created only inside an
\* existing directory and not over a directory.
CanWrite(ds, p) == Len(p) > 0 /\ Parent(p) \in ds /\ p \notin ds

WriteFile(fs, p, content) ==
  [q \in DOMAIN fs \cup {p} |-> IF q = p THEN content ELSE fs[q]]

----------------------------------------------------------------------------
(* The input directory *)

FileNames == 1..MaxFiles

\* Kinds of directory entry: "docx" is an eligible document, "lock" an
\* editor lock file "~$name.docx", "other" a file without the .docx suffix.
EntryKinds == {"absent", "docx", "lock", "other"}

MatchesDocxGlob(kind) == kind \in {"docx", "lock"}

StartsWithLockMarker(kind) == kind = "lock"

\* sorted(...).  The mutant sorts in descending order.
RECURSIVE SortedSeqMutDesc(_)
SortedSeqMutDesc(S) ==
  IF S = {} THEN <<>>
  ELSE LET m == CHOOSE x \in S : \A y \in S : x >= y
       IN <<m>> \o SortedSeqMutDesc(S \ {m})

RECURSIVE SortedSeq(_)
SortedSeq(S) ==
  IF S = {} THEN <<>>
  ELSE LET m == CHOOSE x \in S : \A y \in S : x <= y
       IN <<m>> \o SortedSeq(S \ {m})

\* pipeline._get_docx_files.  The mutant forgets the lock-file filter.
GetDocxFilesMutLock(dir) ==
  SortedSeq({n \in DOMAIN dir : MatchesDocxGlob(dir[n])})

GetDocxFiles(dir) ==
  SortedSeq({n \in DOMAIN dir :
               MatchesDocxGlob(dir[n]) /\ ~StartsWithLockMarker(dir[n])})

----------------------------------------------------------------------------
(* Extracted texts, the encoder and the alert detector *)

SYSTEM_PROMPT == "SYSTEM_PROMPT"

\* Sample document texts, named by the token band they fall in.
Contents == {"small", "note", "limit", "warn", "crit"}

\* len(encoder.encode(text)) on the sample texts and the system prompt.
EncodeLen(text) ==
  CASE text = SYSTEM_PROMPT -> 2000
    [] text = "small" -> 1000
    [] text = "note"  -> 118000
    [] text = "limit" -> 148000
    [] text = "warn"  -> 198000
    [] text = "crit"  -> 208000

\* len(content) on the sample texts.
CharLen(text) == 4 * EncodeLen(text)

(* A text is a sequence of lines and a line is a sequence of fragments, the
   pieces of the line a pattern can match; a blank line is <<>>. *)

\* extractor.py 60: content = "\n\n".join(paragraphs)
RECURSIVE JoinParagraphs(_)
JoinParagraphs(paragraphs) ==
  IF paragraphs = <<>> THEN << <<>> >>
  ELSE IF Len(paragraphs) = 1 THEN <<Head(paragraphs)>>
  ELSE <<Head(paragraphs), <<>>>> \o JoinParagraphs(Tail(paragraphs))

\* The lines of each sample document that the detectors and the combiner
\* see; its size in tokens is given by EncodeLen.
SampleText(content) ==
  CASE content = "small" ->
         JoinParagraphs(<< <<"word">>, <<"[INSERT A]", "word">> >>)
    [] content = "note" ->
         JoinParagraphs(<< <<"LEED", "word">>, <<"[INSERT A]">> >>)
    [] OTHER -> JoinParagraphs(<< <<"word">> >>)

\* The patterns, each by the fragments it matches, and its description.
LEED_PATTERNS ==
  << [matches |-> {"LEED", "leed"}, type |-> "LEED reference"],
     [matches |-> {"USGBC"}, type |-> "USGBC reference"],
     [matches |-> {"U.S. Green Building Council"}, type |-> "USGBC reference"],
     [matches |-> {"EA Credit 1"}, type |-> "LEED credit reference"],
     [matches |-> {"green building certification"},
      type |-> "Green building certification"] >>

PLACEHOLDER_ALERT_PATTERNS ==
  << [matches |-> {"[INSERT A]", "[INSERT B]"}, type |-> "Bracketed placeholder"],
     [matches |-> {"<INSERT A>"}, type |-> "Angle bracket placeholder"],
     [matches |-> {"___"}, type |-> "Blank line placeholder"],
     [matches |-> {"[ ]"}, type |-> "Empty brackets"],
     [matches |-> {"< >"}, type |-> "Empty angle brackets"],
     [matches |-> {"[TBD]"}, type |-> "TBD marker"],
     [matches |-> {"[TBC]"}, type |-> "TBC marker"],
     [matches |-> {"[XXX]"}, type |-> "XXX placeholder"],
     [matches |-> {"xx inches"}, type |-> "Numeric placeholder"] >>

RECURSIVE Flatten(_)
Flatten(ss) == IF ss = <<>> THEN <<>> ELSE Head(ss) \o Flatten(Tail(ss))

\* re.finditer(pattern, line): the matches, left to right
FindIter(pattern, line) == SelectSeq(line, LAMBDA f : f \in pattern.matches)

\* The collecting loop of both detectors: lines, then patterns, then matches.
\* context is line.strip()[:100]; the lines here are short and unpadded.
CollectAlerts(patterns, lines, filename) ==
  Flatten([line_num \in 1..Len(lines) |->
    Flatten([k \in 1..Len(patterns) |->
      LET matches == FindIter(patterns[k], lines[line_num])
      IN [j \in 1..Len(matches) |->
            [filename |-> filename, line |-> line_num,
             type |-> patterns[k].type, text |-> matches[j],
             context |-> lines[line_num]]]])])

\* The deduplicating loop: keys[i] is the key of alerts[i].
RECURSIVE UniqueAlerts(_, _, _)
UniqueAlerts(alerts, keys, seen) ==
  IF alerts = <<>> THEN <<>>
  ELSE IF Head(keys) \in seen
       THEN UniqueAlerts(Tail(alerts), Tail(keys), seen)
       ELSE <<Head(alerts)>> \o
            UniqueAlerts(Tail(alerts), Tail(keys), seen \cup {Head(keys)})

\* line 122: key = (alert['filename'], alert['line'], alert['type'])
LeedKey(alert) == <<alert.filename, alert.line, alert.type>>

\* line 160: key = (alert['filename'], alert['line'], alert['text'])
PlaceholderKey(alert) == <<alert.filename, alert.line, alert.text>>

\* preprocessor.detect_leed_references
DetectLeedReferences(content, filename) ==
  LET alerts == CollectAlerts(LEED_PATTERNS, content, filename)
  IN UniqueAlerts(alerts, [i \in 1..Len(alerts) |-> LeedKey(alerts[i])], {})

\* preprocessor.detect_placeholders
DetectPlaceholders(content, filename) ==
  LET alerts == CollectAlerts(PLACEHOLDER_ALERT_PATTERNS, content, filename)
  IN UniqueAlerts(alerts, [i \in 1..Len(alerts) |-> PlaceholderKey(alerts[i])], {})

----------------------------------------------------------------------------
(* tokenizer.analyze_token_usage *)

\* The mutant counts the first item only.
SumTokensMutHead(items) ==
  IF items = <<>> THEN 0 ELSE Head(items).tokens

RECURSIVE SumTokens(_)
SumTokens(items) ==
  IF items = <<>> THEN 0
  ELSE Head(items).tokens + SumTokens(Tail(items))

\* The level of the warning message: its leading word, or None.
\* The mutant tests the recommended ceiling first, which shadows CRITICAL.
WarningLevelMutOrder(total_tokens) ==
  IF total_tokens > RECOMMENDED_MAX THEN "WARNING"
  ELSE IF total_tokens > MAX_CONTEXT_TOKENS THEN "CRITICAL"
  ELSE IF total_tokens * 10 > RECOMMENDED_MAX * 8 THEN "Note"
  ELSE NoneVal

WarningLevel(total_tokens) ==
  IF total_tokens > MAX_CONTEXT_TOKENS THEN "CRITICAL"
  ELSE IF total_tokens > RECOMMENDED_MAX THEN "WARNING"
  ELSE IF total_tokens * 10 > RECOMMENDED_MAX * 8 THEN "Note"
  ELSE NoneVal

\* line 95.  The mutant compares against the absolute maximum.
WithinLimitMutAbs(total_tokens) == total_tokens <= MAX_CONTEXT_TOKENS

WithinLimit(total_tokens) == total_tokens <= RECOMMENDED_MAX

\* The mutant derives within_limit from the absence of a warning message.
AnalyzeTokenUsageMutWithin(spec_contents, system_prompt) ==
  LET system_tokens == EncodeLen(system_prompt)
      items == [i \in 1..Len(spec_contents) |->
                  [name   |-> spec_contents[i][1],
                   tokens |-> EncodeLen(spec_contents[i][2]),
                   chars  |-> CharLen(spec_contents[i][2])]]
      total_tokens == system_tokens + SumTokens(items)
  IN [items                |-> items,
      system_prompt_tokens |-> system_tokens,
      total_tokens         |-> total_tokens,
      within_limit         |-> WarningLevel(total_tokens) = NoneVal,
      warning_message      |-> WarningLevel(total_tokens)]

AnalyzeTokenUsage(spec_contents, system_prompt) ==
  LET system_tokens == EncodeLen(system_prompt)
      items == [i \in 1..Len(spec_contents) |->
                  [name   |-> spec_contents[i][1],
                   tokens |-> EncodeLen(spec_contents[i][2]),
                   chars  |-> CharLen(spec_contents[i][2])]]
      total_tokens == system_tokens + SumTokens(items)
  IN [items                |-> items,
      system_prompt_tokens |-> system_tokens,
      total_tokens         |-> total_tokens,
      within_limit         |-> WithinLimit(total_tokens),
      warning_message      |-> WarningLevel(total_tokens)]

----------------------------------------------------------------------------
(* pipeline._combine_specs: one block per spec, its header line and then the
   lines of its content, the blocks joined by "\n\n", which puts one blank
   line between a block and the next. *)

\* f"===== FILE: {s.filename} ====="
Header(filename) == "===== FILE: " \o ToString(filename) \o " ====="

\* pipeline._combine_specs.  The mutant leaves the header lines out.
RECURSIVE CombineSpecsMutNoHeader(_)
CombineSpecsMutNoHeader(ss) ==
  IF ss = <<>> THEN << <<>> >>
  ELSE IF Len(ss) = 1 THEN Head(ss).content
  ELSE Head(ss).content \o << <<>> >> \o CombineSpecsMutNoHeader(Tail(ss))

RECURSIVE CombineSpecs(_)
CombineSpecs(ss) ==
  IF ss = <<>> THEN << <<>> >>
  ELSE LET block == << <<Header(Head(ss).filename)>> >> \o Head(ss).content
       IN IF Len(ss) = 1 THEN block
          ELSE block \o << <<>> >> \o CombineSpecs(Tail(ss))

\* The specs of a run, each with the text of its sample document.
\* The mutant drops the lines a detector pattern matches.
SpecTextsMutDropAlerted(ss) ==
  [i \in 1..Len(ss) |->
     [filename |-> ss[i].filename,
      content |->
        SelectSeq(SampleText(ss[i].content),
                  LAMBDA line :
                    \A j \in 1..Len(line) :
                      /\ \A k \in 1..Len(LEED_PATTERNS) :
                           line[j] \notin LEED_PATTERNS[k].matches
                      /\ \A k \in 1..Len(PLACEHOLDER_ALERT_PATTERNS) :
                           line[j] \notin PLACEHOLDER_ALERT_PATTERNS[k].matches)]]

SpecTexts(ss) ==
  [i \in 1..Len(ss) |->
     [filename |-> ss[i].filename, content |-> SampleText(ss[i].content)]]

----------------------------------------------------------------------------
(* reviewer.parse_findings.  A response text is a sequence of tokens: a
   code-fence line, narrative prose (pre), the acknowledgment phrase
   (no issues), the JSON punctuation, a malformed JSON fragment (bad), a
   JSON value that is not an object (X), and JSON objects (see ItemDict). *)

FindingKeys == {"severity", "fileName", "section", "issue", "actionType",
                "existingText", "replacementText", "codeReference"}

DictTokens == {"D_ADD", "D_ADD_BAD", "D_DEL", "D_MIN", "D_SEV"}

ItemTokens == DictTokens \cup {"X"}

\* The JSON object a D_* token stands for: key -> value, null is None.
ItemDict(tok) ==
  CASE tok = "D_ADD" ->
         [k \in FindingKeys |->
            CASE k = "severity" -> "HIGH"
              [] k = "actionType" -> "ADD"
              [] k = "existingText" -> NoneVal
              [] OTHER -> k]
    [] tok = "D_ADD_BAD" ->
         [k \in {"severity", "actionType", "existingText"} |->
            CASE k = "severity" -> "CRITICAL"
              [] k = "actionType" -> "ADD"
              [] OTHER -> "old text"]
    [] tok = "D_DEL" ->
         [k \in {"severity", "actionType", "existingText"} |->
            CASE k = "severity" -> "GRIPES"
              [] k = "actionType" -> "DELETE"
              [] OTHER -> "old text"]
    [] tok = "D_MIN" -> [k \in {} |-> NoneVal]
    [] tok = "D_SEV" -> [k \in {"severity"} |-> "BLOCKER"]

\* dict.get(key, default)
Get(d, key, default) == IF key \in DOMAIN d THEN d[key] ELSE default

\* Finding(...) built from one array element (reviewer.py 132-141)
MakeFinding(item) ==
  [severity        |-> Get(item, "severity", "MEDIUM"),
   fileName        |-> Get(item, "fileName", "Unknown"),
   section         |-> Get(item, "section", "Unknown"),
   issue           |-> Get(item, "issue", "No description"),
   actionType      |-> Get(item, "actionType", "EDIT"),
   existingText    |-> Get(item, "existingText", NoneVal),
   replacementText |-> Get(item, "replacementText", NoneVal),
   codeReference   |-> Get(item, "codeReference", NoneVal)]

\* Removal of markdown code fences (reviewer.py 100-107)
StripFences(text) ==
  IF text # <<>> /\ Head(text) = "fence"
  THEN LET lines == Tail(text)
       IN IF lines # <<>> /\ lines[Len(lines)] = "fence"
          THEN SubSeq(lines, 1, Len(lines) - 1)
          ELSE lines
  ELSE text

\* str.find / str.rfind, 0 when absent (indices are 1-based here)
Find(text, tok) ==
  IF \E i \in 1..Len(text) : text[i] = tok
  THEN CHOOSE i \in 1..Len(text) :
         text[i] = tok /\ \A j \in 1..(i - 1) : text[j] # tok
  ELSE 0

RFind(text, tok) ==
  IF \E i \in 1..Len(text) : text[i] = tok
  THEN CHOOSE i \in 1..Len(text) :
         text[i] = tok /\ \A j \in (i + 1)..Len(text) : text[j] # tok
  ELSE 0

\* json.loads on a token slice: a flat array of comma-separated items.
JsonIsArray(js) ==
  /\ Len(js) >= 2
  /\ js[1] = "[" /\ js[Len(js)] = "]"
  /\ LET inner == SubSeq(js, 2, Len(js) - 1)
     IN \/ inner = <<>>
        \/ /\ Len(inner) % 2 = 1
           /\ \A i \in 1..Len(inner) :
                IF i % 2 = 1 THEN inner[i] \in ItemTokens ELSE inner[i] = ","

JsonItems(js) ==
  LET inner == SubSeq(js, 2, Len(js) - 1)
  IN [i \in 1..((Len(inner) + 1) \div 2) |-> inner[2 * i - 1]]

\* The loop over the array elements: an element that is not an object
\* makes item.get raise, and is skipped.
\* The mutant gives up on the whole array at an element that is not an object.
CoerceItemsMutAbort(data) ==
  IF \E i \in 1..Len(data) : data[i] \notin DictTokens THEN <<>>
  ELSE [i \in 1..Len(data) |-> MakeFinding(ItemDict(data[i]))]

RECURSIVE CoerceItems(_)
CoerceItems(data) ==
  IF data = <<>> THEN <<>>
  ELSE IF Head(data) \in DictTokens
       THEN <<MakeFinding(ItemDict(Head(data)))>> \o CoerceItems(Tail(data))
       ELSE CoerceItems(Tail(data))

\* parse_findings: [ok |-> FALSE] stands for the ValueError it raises.
\* The mutant wants the array at the very start of the text.
ParseFindingsMutNoPreamble(response_text) ==
  LET text == StripFences(response_text)
  IN IF text # <<>> /\ Head(text) = "[" /\ JsonIsArray(text)
     THEN [ok |-> TRUE, findings |-> CoerceItems(JsonItems(text))]
     ELSE [ok |-> FALSE, findings |-> <<>>]

ParseFindings(response_text) ==
  LET text == StripFences(response_text)
      start_idx == Find(text, "[")
      end_idx == RFind(text, "]")
      json_str == SubSeq(text, start_idx, end_idx)
  IN IF start_idx = 0 \/ end_idx = 0
     THEN IF (\E i \in 1..Len(text) : text[i] = "no issues") \/ text = <<"[", "]">>
          THEN [ok |-> TRUE, findings |-> <<>>]
          ELSE [ok |-> FALSE, findings |-> <<>>]
     ELSE IF JsonIsArray(json_str)
          THEN [ok |-> TRUE, findings |-> CoerceItems(JsonItems(json_str))]
          ELSE [ok |-> FALSE, findings |-> <<>>]

\* Sample model responses.
Responses ==
  { <<"pre", "[", "D_ADD", ",", "X", ",", "D_MIN", "]">>,
    <<"[", "]">>,
    <<"no issues">>,
    <<>>,
    <<"pre">>,
    <<"[", "{bad", "]">>,
    <<"]", "pre", "[">>,
    <<"fence", "[", "D_ADD_BAD", ",", "D_SEV", ",", "D_DEL", "]", "fence">>,
    <<"pre", "[", "D_ADD", ",", "D_DEL", "]">>,
    <<"[", "pre", "]", "[", "D_ADD", "]">> }

----------------------------------------------------------------------------
(* State after the caller has chosen its arguments, before run_review runs *)

NoExc == [class |-> NoneVal, msg |-> NoneVal]

\* ReviewResult(model=...) with the dataclass defaults (reviewer.py 29-39)
NewReviewResult(model) ==
  [findings |-> <<>>, raw_response |-> <<>>, model |-> model,
   input_tokens |-> 0, output_tokens |-> 0, error |-> NoneVal]

\* Several runs under one output_dir (see the section on run directories)
Runs == 1..MaxRuns

NoDir == -1

NoRunsYet ==
  /\ now = 0
  /\ runDirOf = [r \in Runs |-> NoDir]
  /\ dirOwner = <<>>
  /\ written = {}

outputDirVars == <<now, runDirOf, dirOwner, written>>

\* The text functions called on their own (see the section on text functions)
textVars == <<docs, leedOut, placeholderOut, combinedOut>>

NoTextCalls ==
  /\ docs = <<>>
  /\ leedOut = <<>>
  /\ placeholderOut = <<>>
  /\ combinedOut = <<>>

\* The two front ends run on the same documents (see the section on front ends)
frontVars == <<pipelineFeed, cliFeed>>

NoFrontEndRuns ==
  /\ pipelineFeed = <<>>
  /\ cliFeed = <<>>

\* generate_report called on its own (see the section on the report)
reportVars == <<reportFindings, reportLeed, reportPlaceholder, reportDoc>>

NoReportCalls ==
  /\ reportFindings = <<>>
  /\ reportLeed = <<>>
  /\ reportPlaceholder = <<>>
  /\ reportDoc = <<>>

\* The window of the desktop front end (see the section on SpecReviewApp)
reviewUiVars == <<is_processing, api_key_entry, environKey, reviewThreads>>

analysisUiVars == <<folders, input_dir, analyzeThreads, loaded_file_data,
                    file_list_panel, token_gauge>>

guiVars == <<reviewUiVars, analysisUiVars, run_button, tkQueue>>

\* TokenGauge.__init__ and reset(): no count
GaugeReset == [token_count |-> 0, file_count |-> 0]

\* FileListPanel.__init__ and reset(): no rows
PanelReset == [files |-> <<>>, selected |-> {}]

\* AnimatedButton.set_ready / set_processing / set_complete
ButtonReady == [state |-> "ready", enabled |-> TRUE]

ButtonProcessing == [state |-> "processing", enabled |-> FALSE]

ButtonComplete == [state |-> "complete", enabled |-> FALSE]

\* SpecReviewApp.__init__, with the API key entry and the environment empty
WindowAtStart ==
  /\ is_processing = FALSE
  /\ run_button = ButtonReady
  /\ reviewThreads = <<>>
  /\ tkQueue = <<>>
  /\ input_dir = <<>>
  /\ analyzeThreads = <<>>
  /\ loaded_file_data = <<>>
  /\ file_list_panel = PanelReset
  /\ token_gauge = GaugeReset

NoWindow ==
  /\ WindowAtStart
  /\ api_key_entry = ""
  /\ environKey = ""
  /\ folders = <<>>

viewVars == <<reportVars, guiVars>>

\* run_review has been called and has not taken a step
RunAtStart ==
  /\ pc = "start"
  /\ exc = NoExc
  /\ dirs = {}
  /\ files = <<>>
  /\ docx_files = <<>>
  /\ specs = <<>>
  /\ leed_alerts = <<>>
  /\ placeholder_alerts = <<>>
  /\ token_summary = <<>>
  /\ combined = <<>>
  /\ progressLog = <<>>
  /\ result = <<>>
  /\ attempt = 0
  /\ last_error = NoneVal
  /\ apiCalls = <<>>
  /\ sleeps = <<>>
  /\ parses = 0
  /\ outputs = <<>>

Init ==
  /\ inputDir \in [FileNames -> EntryKinds]
  /\ dry_run \in BOOLEAN
  /\ api_key_set \in BOOLEAN
  /\ RunAtStart
  /\ NoRunsYet
  /\ NoTextCalls
  /\ NoFrontEndRuns
  /\ NoReportCalls
  /\ NoWindow

inputVars == <<inputDir, dry_run, api_key_set, outputDirVars, textVars,
               frontVars, viewVars>>

runVars == <<inputDir, dry_run, api_key_set, pc, exc, dirs, files,
             docx_files, specs, leed_alerts, placeholder_alerts,
             token_summary, combined, progressLog, result, attempt,
             last_error, apiCalls, sleeps, parses, outputs>>

invokerVars == <<result, attempt, last_error, apiCalls, sleeps, parses>>

extractVars == <<docx_files, specs, leed_alerts, placeholder_alerts>>

\* raise: run_review ends with the exception.  The mutant records the
\* exception and lets the run go on to the token estimate.
RaiseMutGoOn(class, msg) ==
  pc' = "estimate" /\ exc' = [class |-> class, msg |-> msg]

Raise(class, msg) == pc' = "raised" /\ exc' = [class |-> class, msg |-> msg]

\* progress(percent, message); percent is kept in hundredths
Progress(log, hundredths) == Append(log, hundredths)

----------------------------------------------------------------------------
(* run_review, pipeline.py 90-152 *)

\* line 92: run_dir = _create_run_dir(output_dir)
CreateRunDir ==
  /\ pc = "start"
  /\ dirs' = dirs \cup {RunDir}
  /\ pc' = "list"
  /\ UNCHANGED <<inputVars, exc, files, extractVars, token_summary, combined,
                 progressLog, invokerVars, outputs>>

\* lines 94-98: the eligible files, or FileNotFoundError
ListFiles ==
  /\ pc = "list"
  /\ LET found == GetDocxFiles(inputDir)
     IN IF found = <<>>
        THEN /\ Raise("FileNotFoundError", "No .docx files found")
             /\ UNCHANGED <<docx_files, progressLog>>
        ELSE /\ docx_files' = found
             /\ progressLog' = Progress(progressLog, 0)
             /\ pc' = "extract"
             /\ exc' = exc
  /\ UNCHANGED <<inputVars, dirs, files, specs, leed_alerts,
                 placeholder_alerts, token_summary, combined, invokerVars,
                 outputs>>

\* line 113: (i / total) * 35.0, in hundredths of a percent.  The mutant
\* forgets the division by total.
LoadedPercentMutNoDiv(i, total) == i * 3500

LoadedPercent(i, total) == (i * 3500) \div total

\* lines 104-113: one iteration of the extraction loop.  The document read
\* is an input: one of the sample texts, or a corrupt file.
ExtractFile ==
  /\ pc = "extract"
  /\ LET i == Len(specs) + 1
         total == Len(docx_files)
         p == docx_files[i]
     IN \/ /\ Raise("ValueError", "Invalid or corrupted .docx file")
           /\ UNCHANGED <<specs, leed_alerts, placeholder_alerts, progressLog>>
        \/ \E content \in Contents :
             /\ specs' = Append(specs, [filename |-> p, content |-> content])
             /\ leed_alerts' =
                  leed_alerts \o DetectLeedReferences(SampleText(content), p)
             /\ placeholder_alerts' =
                  placeholder_alerts \o DetectPlaceholders(SampleText(content), p)
             /\ progressLog' = Progress(progressLog, LoadedPercent(i, total))
             /\ pc' = IF i = total THEN "estimate" ELSE "extract"
             /\ exc' = exc
  /\ UNCHANGED <<inputVars, dirs, files, docx_files, token_summary, combined,
                 invokerVars, outputs>>

\* The object written to token_summary.json (lines 123-137)
TokenSummaryJson(ts) ==
  [model                  |-> MODEL_OPUS_45,
   recommended_max_tokens |-> RECOMMENDED_MAX,
   within_limit           |-> ts.within_limit,
   total_tokens           |-> ts.total_tokens,
   system_prompt_tokens   |-> ts.system_prompt_tokens,
   items                  |-> ts.items,
   warning_message        |-> ts.warning_message]

\* lines 115-139: estimate the tokens and write token_summary.json
EstimateTokens ==
  /\ pc = "estimate"
  /\ LET spec_contents == [i \in 1..Len(specs) |->
                             <<specs[i].filename, specs[i].content>>]
         ts == AnalyzeTokenUsage(spec_contents, SYSTEM_PROMPT)
     IN /\ token_summary' = <<ts>>
        /\ files' = WriteFile(files, Join(RunDir, "token_summary.json"),
                              TokenSummaryJson(ts))
  /\ progressLog' = Progress(progressLog, 4000)
  /\ pc' = "combine"
  /\ UNCHANGED <<inputVars, exc, dirs, extractVars, combined, invokerVars,
                 outputs>>

\* lines 142-145: write inputs_combined.txt
Combine ==
  /\ pc = "combine"
  /\ progressLog' = Progress(progressLog, 4500)
  /\ combined' = CombineSpecs(SpecTexts(specs))
  /\ files' = WriteFile(files, Join(RunDir, "inputs_combined.txt"),
                        CombineSpecs(SpecTexts(specs)))
  /\ pc' = "admit"
  /\ UNCHANGED <<inputVars, exc, dirs, extractVars, token_summary,
                 invokerVars, outputs>>

\* lines 147-154 and 199: the admission gate and the dry-run switch
Admit ==
  /\ pc = "admit"
  /\ IF ~token_summary[1].within_limit
     THEN /\ Raise("ValueError", "Token limit exceeded")
          /\ UNCHANGED progressLog
     ELSE IF dry_run
     THEN /\ pc' = "dry"
          /\ UNCHANGED <<exc, progressLog>>
     ELSE /\ progressLog' = Progress(progressLog, 5500)
          /\ pc' = "invoke"
          /\ exc' = exc
  /\ UNCHANGED <<inputVars, dirs, files, extractVars, token_summary,
                 combined, invokerVars, outputs>>

----------------------------------------------------------------------------
(* report.generate_report, lines 234-322 *)

Severities == {"CRITICAL", "HIGH", "MEDIUM", "LOW", "GRIPES"}

CountSeverity(findings, sev) ==
  Cardinality({i \in 1..Len(findings) : findings[i].severity = sev})

\* line 319: the report is saved at output_path / "report.docx"
ReportPath(output_path) == Join(output_path, "report.docx")

\* What the document holds: model, files, summary table, alert counts
ReportContent(review_result, files_reviewed, leed, placeholder) ==
  [model          |-> review_result.model,
   files_reviewed |-> files_reviewed,
   summary        |-> [sev \in Severities |->
                         CountSeverity(review_result.findings, sev)],
   total          |-> Len(review_result.findings),
   leed_alerts    |-> Len(leed),
   placeholder_alerts |-> Len(placeholder)]

\* pipeline._normalize_alerts: {filename, line, text}
NormalizeAlerts(alerts) ==
  [i \in 1..Len(alerts) |->
     [filename |-> alerts[i].filename, line |-> alerts[i].line,
      text |-> alerts[i].text]]

FilesReviewed == [i \in 1..Len(specs) |-> specs[i].filename]

----------------------------------------------------------------------------
(* run_review, the dry-run branch: pipeline.py 154-197 *)

PipelineOutputs(report_docx, review_result) ==
  [run_dir             |-> RunDir,
   report_docx         |-> report_docx,
   findings_json       |-> Join(RunDir, "findings.json"),
   raw_response_txt    |-> Join(RunDir, "raw_response.txt"),
   inputs_combined_txt |-> Join(RunDir, "inputs_combined.txt"),
   token_summary_json  |-> Join(RunDir, "token_summary.json"),
   review_result       |-> review_result,
   leed_alert_count    |-> Len(leed_alerts),
   placeholder_alert_count |-> Len(placeholder_alerts)]

DryFindingsJson ==
  [meta     |-> [model |-> MODEL_OPUS_45, dry_run |-> TRUE],
   findings |-> <<>>,
   alerts   |-> [leed_alerts |-> leed_alerts,
                 placeholder_alerts |-> placeholder_alerts]]

\* generate_report is handed report_docx = run_dir / "report.docx" as its
\* output_path; Document.save then opens ReportPath(report_docx).
DryRun ==
  /\ pc = "dry"
  /\ LET dummy == NewReviewResult(MODEL_OPUS_45)
         report_docx == Join(RunDir, "report.docx")
         report_path == ReportPath(report_docx)
     IN IF ~CanWrite(dirs, report_path)
        THEN /\ Raise("FileNotFoundError", "report.docx/report.docx")
             /\ UNCHANGED <<files, progressLog, outputs>>
        ELSE /\ files' =
                  WriteFile(
                    WriteFile(
                      WriteFile(files, report_path,
                                ReportContent(dummy, FilesReviewed,
                                              NormalizeAlerts(leed_alerts),
                                              NormalizeAlerts(placeholder_alerts))),
                      Join(RunDir, "findings.json"), DryFindingsJson),
                    Join(RunDir, "raw_response.txt"), <<>>)
             /\ progressLog' = Progress(progressLog, 10000)
             /\ outputs' = <<PipelineOutputs(report_docx, <<>>)>>
             /\ pc' = "done"
             /\ exc' = exc
  /\ UNCHANGED <<inputVars, dirs, extractVars, token_summary, combined,
                 invokerVars>>

----------------------------------------------------------------------------
(* reviewer.review_specs, lines 150-297, as run_review calls it:
   model and use_thinking keep their defaults *)

\* lines 170-175: extended thinking forces the Opus model
ModelUsed(model, use_thinking) ==
  IF use_thinking /\ model # MODEL_OPUS THEN MODEL_OPUS ELSE model

\* The except clauses of lines 274 and 281 catch these and retry
IsTransientMutAll(outcome) ==
  outcome \in {"RateLimitError", "APIConnectionError", "APIError"}

IsTransient(outcome) == outcome \in {"RateLimitError", "APIConnectionError"}

\* line 192: for attempt in range(max_retries)
LoopContinuesMutOff(a) == a <= max_retries

LoopContinues(a) == a < max_retries

RECURSIVE Pow2(_)
Pow2(n) == IF n = 0 THEN 1 ELSE 2 * Pow2(n - 1)

\* lines 276 and 283: wait_time = 2 ** attempt * base.
\* The mutant uses the rate-limit base for both conditions.
WaitTimeMutBase(outcome, a) == Pow2(a) * 10

WaitTime(outcome, a) ==
  IF outcome = "RateLimitError" THEN Pow2(a) * 10 ELSE Pow2(a) * 5

\* lines 267-270: findings on success, the error on a ValueError.
\* The mutant validates severities after a successful parse and records an
\* error while keeping the findings.
AfterParseMutKeep(res, parsed) ==
  IF parsed.ok
  THEN [res EXCEPT !.findings = parsed.findings,
                   !.error = IF \E i \in 1..Len(parsed.findings) :
                                   parsed.findings[i].severity \notin Severities
                              THEN "Failed to parse response"
                              ELSE @]
  ELSE [res EXCEPT !.error = "Failed to parse response"]

AfterParse(res, parsed) ==
  IF parsed.ok
  THEN [res EXCEPT !.findings = parsed.findings]
  ELSE [res EXCEPT !.error = "Failed to parse response"]

\* line 295.  The mutant returns without recording the error.
ExhaustedErrorMutNone(last) == NoneVal

ExhaustedError(last) ==
  IF last = "RateLimitError"
  THEN "Failed after 3 attempts. Last error: RateLimitError"
  ELSE "Failed after 3 attempts. Last error: APIConnectionError"

\* lines 170-190: the result object, the API key, the client
\* reviewer.get_api_key: the message of the ValueError it raises, None when
\* it returns the key.  The mutant always returns a key.
GetApiKeyErrorMutKey(key_set) == NoneVal

GetApiKeyError(key_set) ==
  IF key_set THEN NoneVal
  ELSE "ANTHROPIC_API_KEY environment variable not set."

ReviewSpecsBegin ==
  /\ pc = "invoke"
  /\ LET res == NewReviewResult(ModelUsed(MODEL_SONNET, FALSE))
     IN IF GetApiKeyError(api_key_set) # NoneVal
        THEN /\ result' = <<[res EXCEPT !.error =
                                GetApiKeyError(api_key_set)]>>
             /\ pc' = "persist"
        ELSE /\ result' = <<res>>
             /\ pc' = "attempt"
  /\ attempt' = 0
  /\ last_error' = NoneVal
  /\ UNCHANGED <<inputVars, exc, dirs, files, extractVars, token_summary,
                 combined, progressLog, apiCalls, sleeps, parses, outputs>>

\* lines 220 and 252: the one outbound call of an attempt, logged by its
\* outcome.  The mutant issues the request twice.
CallApiMutTwice(calls, outcome) == Append(Append(calls, outcome), outcome)

CallApi(calls, outcome) == Append(calls, outcome)

\* lines 192-292: one attempt.  The API either answers with one of the
\* sample responses or raises one of the three error classes.
Attempt ==
  /\ pc = "attempt"
  /\ \/ \E response_text \in Responses :
          /\ apiCalls' = CallApi(apiCalls, "ok")
          /\ parses' = parses + 1
          /\ result' = <<AfterParse(
                           [result[1] EXCEPT !.raw_response = response_text,
                                             !.input_tokens = 10,
                                             !.output_tokens = Len(response_text)],
                           ParseFindings(response_text))>>
          /\ pc' = "persist"
          /\ UNCHANGED <<attempt, last_error, sleeps>>
     \/ \E outcome \in {"RateLimitError", "APIConnectionError", "APIError"} :
          /\ apiCalls' = CallApi(apiCalls, outcome)
          /\ IF IsTransient(outcome)
             THEN /\ last_error' = outcome
                  /\ sleeps' = Append(sleeps, WaitTime(outcome, attempt))
                  /\ attempt' = attempt + 1
                  /\ pc' = IF LoopContinues(attempt + 1)
                           THEN "attempt" ELSE "exhausted"
                  /\ UNCHANGED result
             ELSE /\ result' = <<[result[1] EXCEPT !.error = "API error"]>>
                  /\ pc' = "persist"
                  /\ UNCHANGED <<attempt, last_error, sleeps>>
          /\ UNCHANGED parses
  /\ UNCHANGED <<inputVars, exc, dirs, files, extractVars, token_summary,
                 combined, progressLog, outputs>>

\* lines 294-297: all retries exhausted
Exhausted ==
  /\ pc = "exhausted"
  /\ result' = <<[result[1] EXCEPT !.error = ExhaustedError(last_error)]>>
  /\ pc' = "persist"
  /\ UNCHANGED <<inputVars, exc, dirs, files, extractVars, token_summary,
                 combined, progressLog, attempt, last_error, apiCalls, sleeps,
                 parses, outputs>>

----------------------------------------------------------------------------
(* run_review after the invoker has returned: pipeline.py 205-255 *)

\* Python truthiness of an optional string.  The mutant stands for a
\* missing "if review_result.error" test.
TruthyMutNever(str) == FALSE

Truthy(str) == str # NoneVal /\ str # ""

\* result.elapsed_seconds = time.time() - start_time: the time of the run
\* passes in the backoff waits.
RECURSIVE ElapsedSeconds(_)
ElapsedSeconds(waits) ==
  IF waits = <<>> THEN 0 ELSE Head(waits) + ElapsedSeconds(Tail(waits))

FindingsJson(review_result) ==
  [meta     |-> [model |-> review_result.model,
                 input_tokens |-> review_result.input_tokens,
                 output_tokens |-> review_result.output_tokens,
                 elapsed_seconds |-> ElapsedSeconds(sleeps)],
   findings |-> review_result.findings,
   alerts   |-> [leed_alerts |-> leed_alerts,
                 placeholder_alerts |-> placeholder_alerts]]

\* lines 205-234: raw_response.txt, then error.txt and raise, or
\* findings.json
Persist ==
  /\ pc = "persist"
  /\ LET withRaw == WriteFile(files, Join(RunDir, "raw_response.txt"),
                              result[1].raw_response)
     IN IF Truthy(result[1].error)
        THEN /\ files' = WriteFile(withRaw, Join(RunDir, "error.txt"),
                                   result[1].error)
             /\ Raise("RuntimeError", result[1].error)
             /\ UNCHANGED progressLog
        ELSE /\ files' = WriteFile(withRaw, Join(RunDir, "findings.json"),
                                   FindingsJson(result[1]))
             /\ progressLog' = Progress(progressLog, 8500)
             /\ pc' = "report"
             /\ exc' = exc
  /\ UNCHANGED <<inputVars, dirs, extractVars, token_summary, combined,
                 invokerVars, outputs>>

\* lines 235-255: the report, then the outputs descriptor
Report ==
  /\ pc = "report"
  /\ LET report_docx == Join(RunDir, "report.docx")
         report_path == ReportPath(report_docx)
     IN IF ~CanWrite(dirs, report_path)
        THEN /\ Raise("FileNotFoundError", "report.docx/report.docx")
             /\ UNCHANGED <<files, progressLog, outputs>>
        ELSE /\ files' = WriteFile(files, report_path,
                                   ReportContent(result[1], FilesReviewed,
                                                 leed_alerts, placeholder_alerts))
             /\ progressLog' = Progress(progressLog, 10000)
             /\ outputs' = <<PipelineOutputs(report_docx, result)>>
             /\ pc' = "done"
             /\ exc' = exc
  /\ UNCHANGED <<inputVars, dirs, extractVars, token_summary, combined,
                 invokerVars>>

----------------------------------------------------------------------------

Next ==
  \/ CreateRunDir
  \/ ListFiles
  \/ ExtractFile
  \/ EstimateTokens
  \/ Combine
  \/ Admit
  \/ DryRun
  \/ ReviewSpecsBegin
  \/ Attempt
  \/ Exhausted
  \/ Persist
  \/ Report

Spec == Init /\ [][Next]_vars

\* run_review is straight-line sequential code: every step it can take
\* (a file read, a write, an API call that answers or fails, a finite
\* sleep) completes, so the run keeps moving until it returns or raises.
FairSpec == Spec /\ WF_vars(Next)

----------------------------------------------------------------------------
(* Run directories: several runs of run_review under the same output_dir.
   Each run calls _create_run_dir (pipeline.py 62-66), which names the
   directory after the clock read to the second and creates it with
   exist_ok=True, and then writes its artifacts into it.  The runs
   interleave freely and the clock advances between any two steps. *)

\* The artifacts a live run writes, in the order of pipeline.py 121-214
RunArtifacts == <<"token_summary.json", "inputs_combined.txt",
                  "raw_response.txt", "findings.json">>

\* line 63: ts = datetime.now().strftime("%Y-%m-%d_%H%M%S")
RunDirName(clock) == clock

\* Path.mkdir(parents=True, exist_ok=True): an existing directory is kept
MkdirExistOk(owners, d, r) ==
  IF d \in DOMAIN owners THEN owners
  ELSE [x \in DOMAIN owners \cup {d} |-> IF x = d THEN r ELSE owners[x]]

WrittenBy(r) == {w \in written : w.run = r}

InitDirs ==
  /\ inputDir = [n \in FileNames |-> "absent"]
  /\ dry_run = FALSE
  /\ api_key_set = FALSE
  /\ RunAtStart
  /\ NoRunsYet
  /\ NoTextCalls
  /\ NoFrontEndRuns
  /\ NoReportCalls
  /\ NoWindow

\* a second of wall-clock time passes
Tick ==
  /\ now < MaxClock
  /\ now' = now + 1
  /\ UNCHANGED <<runVars, textVars, frontVars, viewVars, runDirOf, dirOwner, written>>

\* _create_run_dir, called by run r
StartRun ==
  \E r \in Runs :
    /\ runDirOf[r] = NoDir
    /\ runDirOf' = [runDirOf EXCEPT ![r] = RunDirName(now)]
    /\ dirOwner' = MkdirExistOk(dirOwner, RunDirName(now), r)
    /\ UNCHANGED <<runVars, textVars, frontVars, viewVars, now, written>>

\* run r writes its next artifact into the directory it was given
WriteArtifact ==
  \E r \in Runs :
    /\ runDirOf[r] # NoDir
    /\ Cardinality(WrittenBy(r)) < Len(RunArtifacts)
    /\ written' = written \cup
           {[dir |-> runDirOf[r],
             name |-> RunArtifacts[Cardinality(WrittenBy(r)) + 1],
             run |-> r]}
    /\ UNCHANGED <<runVars, textVars, frontVars, viewVars, now, runDirOf, dirOwner>>

NextDirs ==
  \/ Tick
  \/ StartRun
  \/ WriteArtifact

SpecDirs == InitDirs /\ [][NextDirs]_vars

----------------------------------------------------------------------------
(* Text functions.  The detectors of preprocessor.py are called on one
   extracted text; the caller's texts are what extract_text_from_docx can
   return: paragraphs joined by blank lines. *)

MaxParas == 2

MaxFrags == 2

\* The sequences over S of length lo..hi
SeqsOf(S, lo, hi) == UNION {[1..n -> S] : n \in lo..hi}

AlertFragments == {"LEED", "leed", "USGBC", "[INSERT A]", "[INSERT B]"}

AlertTexts ==
  {JoinParagraphs(ps) :
     ps \in SeqsOf(SeqsOf(AlertFragments, 1, MaxFrags), 0, MaxParas)}

InitAlerts ==
  /\ inputDir = [n \in FileNames |-> "absent"]
  /\ dry_run = FALSE
  /\ api_key_set = FALSE
  /\ RunAtStart
  /\ NoRunsYet
  /\ \E f \in FileNames, t \in AlertTexts :
       docs = <<[filename |-> f, content |-> t]>>
  /\ leedOut = <<>>
  /\ placeholderOut = <<>>
  /\ combinedOut = <<>>
  /\ NoFrontEndRuns
  /\ NoReportCalls
  /\ NoWindow

\* preprocess_spec line 205
CallDetectLeed ==
  /\ leedOut = <<>>
  /\ leedOut' = <<DetectLeedReferences(docs[1].content, docs[1].filename)>>
  /\ UNCHANGED <<runVars, outputDirVars, frontVars, viewVars, docs, placeholderOut, combinedOut>>

\* preprocess_spec line 206
CallDetectPlaceholders ==
  /\ placeholderOut = <<>>
  /\ placeholderOut' = <<DetectPlaceholders(docs[1].content, docs[1].filename)>>
  /\ UNCHANGED <<runVars, outputDirVars, frontVars, viewVars, docs, leedOut, combinedOut>>

NextAlerts ==
  \/ CallDetectLeed
  \/ CallDetectPlaceholders

SpecAlerts == InitAlerts /\ [][NextAlerts]_vars

(* _combine_specs called on a list of extracted specs with distinct
   filenames; a paragraph of a document may itself read like a header. *)

CombineParagraphs == {<<"word">>} \cup {<<Header(f)>> : f \in {1}}

CombineTexts ==
  {JoinParagraphs(ps) : ps \in SeqsOf(CombineParagraphs, 0, MaxParas)}

DistinctFilenames(ss) ==
  \A i, j \in 1..Len(ss) : ss[i].filename = ss[j].filename => i = j

SpecLists ==
  {ss \in SeqsOf([filename : FileNames, content : CombineTexts], 0, MaxFiles) :
     DistinctFilenames(ss)}

InitCombine ==
  /\ inputDir = [n \in FileNames |-> "absent"]
  /\ dry_run = FALSE
  /\ api_key_set = FALSE
  /\ RunAtStart
  /\ NoRunsYet
  /\ docs \in SpecLists
  /\ leedOut = <<>>
  /\ placeholderOut = <<>>
  /\ combinedOut = <<>>
  /\ NoFrontEndRuns
  /\ NoReportCalls
  /\ NoWindow

\* combined = _combine_specs(specs)
CallCombineSpecs ==
  /\ combinedOut = <<>>
  /\ combinedOut' = <<CombineSpecs(docs)>>
  /\ UNCHANGED <<runVars, outputDirVars, frontVars, viewVars, docs, leedOut, placeholderOut>>

NextCombine == CallCombineSpecs

SpecCombine == InitCombine /\ [][NextCombine]_vars

----------------------------------------------------------------------------
(* Front ends.  run_review (pipeline.py 100-152, 199-203) and the CLI review
   command (cli.py 205-299) each turn the same extracted documents into the
   per-file texts they give analyze_token_usage, the gate decision, and the
   combined text they give review_specs. *)

\* The boilerplate patterns, each by the fragments it matches.
BOILERPLATE_PATTERNS ==
  << [matches |-> {"[Note to Specifier: x]"}, type |-> "specifier_note"],
     [matches |-> {"[INSERT A]", "[INSERT B]", "<INSERT A>"}, type |-> "placeholder"],
     [matches |-> {"Copyright 2020 MasterSpec"}, type |-> "copyright"],
     [matches |-> {"----"}, type |-> "separator"],
     [matches |-> {"Page 1 of 2"}, type |-> "page_number"],
     [matches |-> {"[Option A]"}, type |-> "unresolved_option"],
     [matches |-> {"{revision 1}"}, type |-> "revision_mark"],
     [matches |-> {"<<hidden>>"}, type |-> "hidden_text"] >>

\* re.sub(pattern, '', cleaned) for every pattern, on one line
RemoveBoilerplate(line) ==
  SelectSeq(line, LAMBDA f :
    \A k \in 1..Len(BOILERPLATE_PATTERNS) : f \notin BOILERPLATE_PATTERNS[k].matches)

\* re.sub(r'\n{3,}', '\n\n', cleaned): a run of blank lines becomes one
RECURSIVE CollapseBlankLines(_)
CollapseBlankLines(lines) ==
  IF Len(lines) < 2 THEN lines
  ELSE IF lines[1] = <<>> /\ lines[2] = <<>>
       THEN CollapseBlankLines(Tail(lines))
       ELSE <<Head(lines)>> \o CollapseBlankLines(Tail(lines))

\* cleaned.strip(): no blank line at either end; "" is one empty line
RECURSIVE StripBlankLines(_)
StripBlankLines(lines) ==
  IF lines = <<>> THEN << <<>> >>
  ELSE IF Head(lines) = <<>> THEN StripBlankLines(Tail(lines))
  ELSE IF lines[Len(lines)] = <<>>
       THEN StripBlankLines(SubSeq(lines, 1, Len(lines) - 1))
       ELSE lines

\* preprocessor.strip_boilerplate
StripBoilerplate(content) ==
  StripBlankLines(CollapseBlankLines(
    [i \in 1..Len(content) |-> RemoveBoilerplate(content[i])]))

\* len(encoder.encode(...)) of one fragment
FragmentTokens(f) ==
  CASE f = "bulk" -> 148000
    [] f = "[Note to Specifier: x]" -> 10
    [] OTHER -> 1

RECURSIVE LineTokens(_)
LineTokens(line) ==
  IF line = <<>> THEN 0 ELSE FragmentTokens(Head(line)) + LineTokens(Tail(line))

\* tokenizer.count_tokens of a text
RECURSIVE CountTokens(_)
CountTokens(text) ==
  IF text = <<>> THEN 0 ELSE LineTokens(Head(text)) + CountTokens(Tail(text))

RECURSIVE TotalTokens(_)
TotalTokens(spec_contents) ==
  IF spec_contents = <<>> THEN EncodeLen(SYSTEM_PROMPT)
  ELSE CountTokens(Head(spec_contents)[2]) + TotalTokens(Tail(spec_contents))

\* What a front end does with its per-file texts: the texts go to
\* analyze_token_usage, within_limit decides, and an admitted run sends
\* the combined text to review_specs.
FrontEnd(ss) ==
  LET spec_contents == [i \in 1..Len(ss) |-> <<ss[i].filename, ss[i].content>>]
      within_limit == WithinLimit(TotalTokens(spec_contents))
  IN [spec_contents |-> spec_contents,
      within_limit  |-> within_limit,
      sent          |-> IF within_limit THEN <<CombineSpecs(ss)>> ELSE <<>>]

\* pipeline.py 116: (s.filename, s.content)
PipelineTexts(ss) == ss

\* cli.py 254-255, 288-291: (spec.filename, result.cleaned_content)
CliTexts(ss) ==
  [i \in 1..Len(ss) |->
     [filename |-> ss[i].filename, content |-> StripBoilerplate(ss[i].content)]]

FrontEndParagraphs ==
  { <<"word">>, <<"bulk">>, <<"[Note to Specifier: x]">>,
    <<"bulk", "[Note to Specifier: x]">> }

FrontEndTexts ==
  {JoinParagraphs(ps) : ps \in SeqsOf(FrontEndParagraphs, 0, MaxParas)}

InitFrontEnds ==
  /\ inputDir = [n \in FileNames |-> "absent"]
  /\ dry_run = FALSE
  /\ api_key_set = FALSE
  /\ RunAtStart
  /\ NoRunsYet
  /\ docs \in {ss \in SeqsOf([filename : FileNames, content : FrontEndTexts],
                             1, MaxFiles) : DistinctFilenames(ss)}
  /\ leedOut = <<>>
  /\ placeholderOut = <<>>
  /\ combinedOut = <<>>
  /\ NoFrontEndRuns
  /\ NoReportCalls
  /\ NoWindow

\* run_review on the documents
RunPipeline ==
  /\ pipelineFeed = <<>>
  /\ pipelineFeed' = <<FrontEnd(PipelineTexts(docs))>>
  /\ UNCHANGED <<runVars, outputDirVars, textVars, viewVars, cliFeed>>

\* the CLI review command on the documents
RunCli ==
  /\ cliFeed = <<>>
  /\ cliFeed' = <<FrontEnd(CliTexts(docs))>>
  /\ UNCHANGED <<runVars, outputDirVars, textVars, viewVars, pipelineFeed>>

NextFrontEnds ==
  \/ RunPipeline
  \/ RunCli

SpecFrontEnds == InitFrontEnds /\ [][NextFrontEnds]_vars

----------------------------------------------------------------------------
(* The report: report.generate_report called on its own.  The document is
   kept by its summary table, its alerts section and its findings part, the
   last two as sequences of paragraphs [style, text]. *)

MaxFindings == 3
MaxAlerts == 6

SEVERITY_ORDER == <<"CRITICAL", "HIGH", "MEDIUM", "LOW", "GRIPES">>

\* alerts[:5]
DisplayLimit == 5

Para(style, text) == [style |-> style, text |-> text]

\* create_summary_table: the five counts and total_count = len(findings)
SummaryTable(review_result) ==
  [counts |-> [sev \in Severities |->
                 CountSeverity(review_result.findings, sev)],
   total  |-> Len(review_result.findings)]

\* The keys of by_file, in insertion order: each filename at its first alert
RECURSIVE ByFileKeys(_, _)
ByFileKeys(alerts, seen) ==
  IF alerts = <<>> THEN <<>>
  ELSE IF Head(alerts).filename \in seen
       THEN ByFileKeys(Tail(alerts), seen)
       ELSE <<Head(alerts).filename>>
              \o ByFileKeys(Tail(alerts), seen \cup {Head(alerts).filename})

ByFile(alerts, fname) == SelectSeq(alerts, LAMBDA a : a.filename = fname)

\* The number of alerts of a file that are listed.
\* The mutant lists one alert fewer than the limit.
ListedMutShort(n) == IF n < DisplayLimit THEN n ELSE DisplayLimit - 1

Listed(n) == IF n < DisplayLimit THEN n ELSE DisplayLimit

\* One file of one category: its name, its first alerts, the remainder line
FileGroup(fname, alerts) ==
  <<Para("Bold", <<fname>>)>>
    \o [i \in 1..Listed(Len(alerts)) |->
          Para("List Bullet", <<"Line", alerts[i].line, alerts[i].text>>)]
    \o (IF Len(alerts) > DisplayLimit
        THEN <<Para("List Bullet", <<"... and", Len(alerts) - DisplayLimit, "more">>)>>
        ELSE <<>>)

RECURSIVE FileGroups(_, _)
FileGroups(keys, alerts) ==
  IF keys = <<>> THEN <<>>
  ELSE FileGroup(Head(keys), ByFile(alerts, Head(keys)))
         \o FileGroups(Tail(keys), alerts)

AlertCategory(heading, alerts) ==
  IF alerts = <<>> THEN <<>>
  ELSE <<Para("Heading 2", <<heading>>), Para("Normal", <<"intro">>)>>
         \o FileGroups(ByFileKeys(alerts, {}), alerts)

\* create_alerts_section
CreateAlertsSection(leed, placeholder) ==
  IF leed = <<>> /\ placeholder = <<>> THEN <<>>
  ELSE <<Para("Heading 1", <<"Alerts">>)>>
         \o AlertCategory("LEED References Detected", leed)
         \o AlertCategory("Unresolved Placeholders", placeholder)

\* create_findings_section: a heading with the count, then one entry per
\* finding of that severity, numbered from 1
CreateFindingsSection(findings, severity) ==
  LET severity_findings == SelectSeq(findings, LAMBDA f : f.severity = severity)
  IN IF severity_findings = <<>> THEN <<>>
     ELSE <<Para("Heading 1", <<severity, Len(severity_findings)>>)>>
            \o [i \in 1..Len(severity_findings) |->
                  Para("Finding", <<i, severity_findings[i]>>)]

RECURSIVE FindingsSections(_, _)
FindingsSections(findings, order) ==
  IF order = <<>> THEN <<>>
  ELSE CreateFindingsSection(findings, Head(order))
         \o FindingsSections(findings, Tail(order))

\* generate_report, lines 302-316
FindingsPart(review_result) ==
  <<Para("Title", <<"Findings">>)>>
    \o (IF Len(review_result.findings) = 0
        THEN <<Para("Normal", <<"No issues found.">>)>>
        ELSE FindingsSections(review_result.findings, SEVERITY_ORDER))

GenerateReportDoc(review_result, leed, placeholder) ==
  [summary  |-> SummaryTable(review_result),
   alerts   |-> CreateAlertsSection(leed, placeholder),
   findings |-> FindingsPart(review_result)]

\* The findings parse_findings can return for an array of up to MaxFindings
\* objects.
ReportFindingLists ==
  {CoerceItems(data) : data \in SeqsOf(DictTokens, 0, MaxFindings)}

\* Alert lists {filename, line, text}, the line being the position.
AlertList(fnames) ==
  [i \in 1..Len(fnames) |-> [filename |-> fnames[i], line |-> i, text |-> "t"]]

ReportAlertLists == {AlertList(fs) : fs \in SeqsOf(FileNames, 0, MaxAlerts)}

InitReport ==
  /\ inputDir = [n \in FileNames |-> "absent"]
  /\ dry_run = FALSE
  /\ api_key_set = FALSE
  /\ RunAtStart
  /\ NoRunsYet
  /\ NoTextCalls
  /\ NoFrontEndRuns
  /\ NoWindow
  /\ reportDoc = <<>>
  /\ \/ /\ reportFindings \in ReportFindingLists
        /\ reportLeed = <<>>
        /\ reportPlaceholder = <<>>
     \/ /\ reportFindings = <<>>
        /\ reportLeed \in ReportAlertLists
        /\ reportPlaceholder \in ReportAlertLists
        /\ Len(reportLeed) + Len(reportPlaceholder) <= MaxAlerts

CallGenerateReport ==
  /\ reportDoc = <<>>
  /\ reportDoc' =
       <<GenerateReportDoc([NewReviewResult(MODEL_SONNET)
                              EXCEPT !.findings = reportFindings],
                           reportLeed, reportPlaceholder)>>
  /\ UNCHANGED <<runVars, outputDirVars, textVars, frontVars, guiVars,
                 reportFindings, reportLeed, reportPlaceholder>>

NextReport == CallGenerateReport

SpecReport == InitReport /\ [][NextReport]_vars

----------------------------------------------------------------------------
(* SpecReviewApp, the window of src/gui.py.  Handlers run on the Tk main
   thread, one at a time; worker threads hand their results to it through
   self.after.  Callbacks that only write to the log or to the streaming
   panel touch none of the state kept here and are left out. *)

MaxReviews == 2
MaxSelections == 2
MaxFolders == 2

Keys == {"", "key-a", "key-b"}

Folders == 1..MaxFolders

\* What a folder holds: no .docx file, one unreadable file, or one file of
\* a sample text.
FolderKinds == {"none", "corrupt", "small", "warn"}

\* gui.get_docx_files
GuiDocxFiles(kind) == IF kind = "none" THEN <<>> ELSE <<kind>>

\* file_data of analyze(): one entry per file that could be read
FileData(f, kind) ==
  IF kind \in {"small", "warn"}
  THEN <<[path |-> f, tokens |-> EncodeLen(kind)]>>
  ELSE <<>>

PathsOf(file_data) == {file_data[i].path : i \in 1..Len(file_data)}

\* sum(d["tokens"] for d in file_data if d["path"] in selected_paths)
RECURSIVE SelectedTokens(_, _)
SelectedTokens(file_data, selected_paths) ==
  IF file_data = <<>> THEN 0
  ELSE (IF Head(file_data).path \in selected_paths
        THEN Head(file_data).tokens ELSE 0)
         + SelectedTokens(Tail(file_data), selected_paths)

Callback(fn, arg) == [fn |-> fn, arg |-> arg]

\* The attributes and properties of reviewer.ReviewResult
ReviewResultAttrs ==
  {"findings", "raw_response", "model", "input_tokens", "output_tokens",
   "thinking_tokens", "elapsed_seconds", "error", "critical_count",
   "high_count", "medium_count", "low_count", "gripes_count", "total_count",
   "total_output_tokens"}

\* What _on_review_complete reads of result.review_result
CompleteReads ==
  {"critical_count", "high_count", "medium_count", "gripe_count",
   "elapsed_seconds"}

\* start_review: "if self.is_processing: return".
\* The mutant has no such test.
CanStartMutAlways(processing) == TRUE

CanStart(processing) == ~processing

\* _validate_inputs
ValidateInputs ==
  /\ api_key_entry # ""
  /\ input_dir # <<>>
  /\ Cardinality(file_list_panel.selected) > 0
  /\ token_gauge.token_count <= RECOMMENDED_MAX

Running(threads) == {t \in 1..Len(threads) : threads[t].state = "running"}

\* The user types another API key
TypeApiKey ==
  /\ \E k \in Keys \ {api_key_entry} : api_key_entry' = k
  /\ UNCHANGED <<runVars, outputDirVars, textVars, frontVars, reportVars,
                 analysisUiVars, is_processing, environKey, reviewThreads,
                 run_button, tkQueue>>

\* A click on the Run button, which a disabled button ignores: start_review
ClickRun ==
  /\ run_button.enabled
  /\ Len(reviewThreads) < MaxReviews
  /\ IF CanStart(is_processing) /\ ValidateInputs
     THEN /\ is_processing' = TRUE
          /\ run_button' = ButtonProcessing
          /\ environKey' = api_key_entry
          /\ reviewThreads' =
               Append(reviewThreads, [state |-> "running", key |-> api_key_entry])
     ELSE UNCHANGED <<is_processing, run_button, environKey, reviewThreads>>
  /\ UNCHANGED <<runVars, outputDirVars, textVars, frontVars, reportVars,
                 analysisUiVars, api_key_entry, tkQueue>>

\* _run_review_thread: run_review returns a PipelineOutputs, whose
\* review_result is a ReviewResult since dry_run=False, or raises; the
\* thread's last act is to hand the outcome to the main thread.
WorkerEnds ==
  \E t \in Running(reviewThreads) :
    /\ reviewThreads' = [reviewThreads EXCEPT ![t].state = "ended"]
    /\ \/ tkQueue' = Append(tkQueue, Callback("_on_review_complete", TRUE))
       \/ tkQueue' = Append(tkQueue, Callback("_on_review_error", FALSE))
    /\ UNCHANGED <<runVars, outputDirVars, textVars, frontVars, reportVars,
                   analysisUiVars, is_processing, api_key_entry, environKey,
                   run_button>>

\* A click on a checkbox of the file list: the BooleanVar trace calls
\* _on_checkbox_change and so _on_file_selection_change
ToggleFile ==
  \E p \in PathsOf(file_list_panel.files) :
    LET selected == IF p \in file_list_panel.selected
                    THEN file_list_panel.selected \ {p}
                    ELSE file_list_panel.selected \cup {p}
        total_tokens == EncodeLen(SYSTEM_PROMPT)
                          + SelectedTokens(loaded_file_data, selected)
        file_count == Cardinality(selected)
    IN /\ file_list_panel' = [file_list_panel EXCEPT !.selected = selected]
       /\ IF loaded_file_data = <<>>
          THEN UNCHANGED <<token_gauge, run_button>>
          ELSE /\ token_gauge' = [token_count |-> total_tokens,
                                  file_count |-> file_count]
               /\ run_button' =
                    [run_button EXCEPT !.enabled =
                       total_tokens <= RECOMMENDED_MAX /\ file_count > 0]
       /\ UNCHANGED <<runVars, outputDirVars, textVars, frontVars, reportVars,
                      reviewUiVars, folders, input_dir, analyzeThreads,
                      loaded_file_data, tkQueue>>

\* The main loop runs the oldest callback.  An exception in a callback is
\* reported by Tk and ends that callback only.
MainLoop ==
  /\ tkQueue # <<>>
  /\ LET fn == Head(tkQueue).fn
         arg == Head(tkQueue).arg
     IN CASE fn = "_on_review_complete" ->
               IF arg /\ ~(CompleteReads \subseteq ReviewResultAttrs)
               THEN /\ tkQueue' = Tail(tkQueue)
                    /\ UNCHANGED <<is_processing, run_button, file_list_panel,
                                   token_gauge>>
               ELSE /\ run_button' = ButtonComplete
                    /\ tkQueue' = Append(Tail(tkQueue),
                                         Callback("_reset_ui", FALSE))
                    /\ UNCHANGED <<is_processing, file_list_panel, token_gauge>>
          [] fn \in {"_on_review_error", "_reset_ui"} ->
               /\ run_button' = ButtonReady
               /\ is_processing' = FALSE
               /\ tkQueue' = Tail(tkQueue)
               /\ UNCHANGED <<file_list_panel, token_gauge>>
          [] fn = "load_files" ->
               /\ file_list_panel' = [files |-> arg, selected |-> PathsOf(arg)]
               /\ tkQueue' = Tail(tkQueue)
               /\ UNCHANGED <<is_processing, run_button, token_gauge>>
          [] fn = "update_gauge" ->
               /\ token_gauge' = arg
               /\ tkQueue' = Tail(tkQueue)
               /\ UNCHANGED <<is_processing, run_button, file_list_panel>>
          [] fn = "_update_run_button_state" ->
               /\ run_button' = [run_button EXCEPT !.enabled = arg]
               /\ tkQueue' = Tail(tkQueue)
               /\ UNCHANGED <<is_processing, file_list_panel, token_gauge>>
  /\ UNCHANGED <<runVars, outputDirVars, textVars, frontVars, reportVars,
                 api_key_entry, environKey, reviewThreads, folders, input_dir,
                 analyzeThreads, loaded_file_data>>

\* The window once the analysis of a folder with one small file is over.
InitGuiReview ==
  /\ inputDir = [n \in FileNames |-> "absent"]
  /\ dry_run = FALSE
  /\ api_key_set = FALSE
  /\ RunAtStart
  /\ NoRunsYet
  /\ NoTextCalls
  /\ NoFrontEndRuns
  /\ NoReportCalls
  /\ is_processing = FALSE
  /\ run_button = ButtonReady
  /\ reviewThreads = <<>>
  /\ tkQueue = <<>>
  /\ api_key_entry \in Keys
  /\ environKey \in Keys
  /\ folders = [f \in Folders |-> "small"]
  /\ input_dir = <<1>>
  /\ analyzeThreads = <<[folder |-> 1, pc |-> "ended", overlap |-> FALSE]>>
  /\ loaded_file_data = FileData(1, "small")
  /\ file_list_panel = [files |-> FileData(1, "small"), selected |-> {1}]
  /\ token_gauge = [token_count |-> EncodeLen(SYSTEM_PROMPT) + EncodeLen("small"),
                    file_count |-> 1]

NextGuiReview ==
  \/ TypeApiKey
  \/ ToggleFile
  \/ ClickRun
  \/ WorkerEnds
  \/ MainLoop

SpecGuiReview == InitGuiReview /\ [][NextGuiReview]_vars

----------------------------------------------------------------------------
(* SpecReviewApp, the choice of the specs folder and its analysis thread *)

Analyzing(threads) == {t \in 1..Len(threads) : threads[t].pc # "ended"}

\* _browse_input with a folder chosen, and _analyze_folder_tokens up to the
\* start of the thread
BrowseInput ==
  \E f \in Folders :
    /\ input_dir' = <<f>>
    /\ IF GuiDocxFiles(folders[f]) = <<>>
       THEN /\ token_gauge' = GaugeReset
            /\ file_list_panel' = PanelReset
            /\ UNCHANGED analyzeThreads
       ELSE /\ Len(analyzeThreads) < MaxSelections
            /\ analyzeThreads' =
                 Append(analyzeThreads,
                        [folder |-> f, pc |-> "extract",
                         overlap |-> Analyzing(analyzeThreads) # {}])
            /\ UNCHANGED <<token_gauge, file_list_panel>>
    /\ UNCHANGED <<runVars, outputDirVars, textVars, frontVars, reportVars,
                   reviewUiVars, folders, loaded_file_data, run_button,
                   tkQueue>>

\* analyze(), one step of one thread: the extraction loop, the store into
\* _loaded_file_data, then the three self.after calls that change the view
AnalyzeStep ==
  \E t \in Analyzing(analyzeThreads) :
    LET f == analyzeThreads[t].folder
        file_data == FileData(f, folders[f])
        total_tokens == EncodeLen(SYSTEM_PROMPT)
                          + SelectedTokens(file_data, PathsOf(file_data))
        goto(pc2) == analyzeThreads' = [analyzeThreads EXCEPT ![t].pc = pc2]
    IN /\ CASE analyzeThreads[t].pc = "extract" ->
                 /\ goto(IF file_data = <<>> THEN "ended" ELSE "store")
                 /\ UNCHANGED <<loaded_file_data, tkQueue>>
            [] analyzeThreads[t].pc = "store" ->
                 /\ loaded_file_data' = file_data
                 /\ goto("post_files")
                 /\ UNCHANGED tkQueue
            [] analyzeThreads[t].pc = "post_files" ->
                 /\ tkQueue' = Append(tkQueue, Callback("load_files", file_data))
                 /\ goto("post_gauge")
                 /\ UNCHANGED loaded_file_data
            [] analyzeThreads[t].pc = "post_gauge" ->
                 /\ tkQueue' =
                      Append(tkQueue,
                             Callback("update_gauge",
                                      [token_count |-> total_tokens,
                                       file_count |-> Len(file_data)]))
                 /\ goto("post_button")
                 /\ UNCHANGED loaded_file_data
            [] analyzeThreads[t].pc = "post_button" ->
                 /\ tkQueue' =
                      Append(tkQueue,
                             Callback("_update_run_button_state",
                                      total_tokens <= RECOMMENDED_MAX))
                 /\ goto("ended")
                 /\ UNCHANGED loaded_file_data
       /\ UNCHANGED <<runVars, outputDirVars, textVars, frontVars, reportVars,
                      reviewUiVars, folders, input_dir, file_list_panel,
                      token_gauge, run_button>>

InitGuiAnalysis ==
  /\ inputDir = [n \in FileNames |-> "absent"]
  /\ dry_run = FALSE
  /\ api_key_set = FALSE
  /\ RunAtStart
  /\ NoRunsYet
  /\ NoTextCalls
  /\ NoFrontEndRuns
  /\ NoReportCalls
  /\ WindowAtStart
  /\ api_key_entry = ""
  /\ environKey = ""
  /\ folders \in [Folders -> FolderKinds]

NextGuiAnalysis ==
  \/ BrowseInput
  \/ AnalyzeStep
  \/ ToggleFile
  \/ MainLoop

SpecGuiAnalysis == InitGuiAnalysis /\ [][NextGuiAnalysis]_vars

----------------------------------------------------------------------------
(* Properties *)

TokenSummaryPath == <<"token_summary.json">>

TokenLimitExceeded == [class |-> "ValueError", msg |-> "Token limit exceeded"]

\* The invoker has been entered or has made a call
InvokerTouched == result # <<>> \/ apiCalls # <<>>

\* C1 - Admission invariant: whenever the token summary has
\* total_tokens > RECOMMENDED_MAX, the run goes no further than the gate,
\* ends only by raising the token-limit error, and review_specs is never
\* entered and no API call is made, with dry_run set or not.
C1_AdmissionInvariant ==
  (token_summary # <<>> /\ token_summary[1].total_tokens > RECOMMENDED_MAX) =>
    /\ pc \in {"combine", "admit", "raised"}
    /\ pc = "raised" => exc = TokenLimitExceeded
    /\ ~InvokerTouched

C1_Witness ==
  /\ pc = "raised" /\ exc = TokenLimitExceeded
  /\ ~dry_run
  /\ token_summary[1].total_tokens > RECOMMENDED_MAX
  /\ token_summary[1].total_tokens <= MAX_CONTEXT_TOKENS
  /\ ~InvokerTouched

\* C2 - Once token estimation has run, token_summary.json exists in the run
\* directory and holds the summary, whatever happens next; when the total
\* exceeds MAX_CONTEXT_TOKENS the warning is CRITICAL, within_limit is
\* false, and the run can only raise at the gate without any invocation,
\* the file being there when the error is raised.
C2_TokenSummaryPersisted ==
  token_summary # <<>> =>
    LET ts == token_summary[1]
    IN /\ TokenSummaryPath \in DOMAIN files
       /\ files[TokenSummaryPath].total_tokens = ts.total_tokens
       /\ files[TokenSummaryPath].within_limit = ts.within_limit
       /\ files[TokenSummaryPath].warning_message = ts.warning_message
       /\ ts.total_tokens > MAX_CONTEXT_TOKENS =>
            /\ ts.warning_message = "CRITICAL"
            /\ ~ts.within_limit
            /\ pc \in {"combine", "admit", "raised"}
            /\ pc = "raised" => exc = TokenLimitExceeded
            /\ ~InvokerTouched

C2_Witness ==
  /\ pc = "raised" /\ exc = TokenLimitExceeded
  /\ token_summary[1].total_tokens > MAX_CONTEXT_TOKENS
  /\ TokenSummaryPath \in DOMAIN files
  /\ files[TokenSummaryPath].warning_message = "CRITICAL"
  /\ ~files[TokenSummaryPath].within_limit

Ended == pc \in {"done", "raised"}

Admitted == token_summary # <<>> /\ token_summary[1].within_limit

\* The file names present in the run directory, at any depth
ArtifactNames == {p[Len(p)] : p \in DOMAIN files}

\* C3 - A dry run that passes the gate never calls review_specs and ends
\* by returning: a report, a findings.json with an empty findings list and
\* an empty raw_response.txt are written, and the outputs carry
\* review_result = None.
C3_DryRunArtifacts ==
  (dry_run /\ Admitted /\ Ended) =>
    /\ pc = "done"
    /\ ~InvokerTouched
    /\ "report.docx" \in ArtifactNames
    /\ <<"findings.json">> \in DOMAIN files
    /\ files[<<"findings.json">>].findings = <<>>
    /\ <<"raw_response.txt">> \in DOMAIN files
    /\ files[<<"raw_response.txt">>] = <<>>
    /\ outputs # <<>>
    /\ outputs[1].review_result = <<>>

\* C4 - Artifact-shape equivalence: an admitted run that ends without an
\* invoker error, dry or live, leaves exactly the five artifact names
\* report.docx, findings.json, raw_response.txt, inputs_combined.txt and
\* token_summary.json, so a dry run and a live run leave the same set.
C4_ArtifactShapeEquivalence ==
  (Admitted /\ Ended /\ (dry_run \/ (result # <<>> /\ result[1].error = NoneVal))) =>
    ArtifactNames = {"report.docx", "findings.json", "raw_response.txt",
                     "inputs_combined.txt", "token_summary.json"}

NoEligibleFiles == \A n \in DOMAIN inputDir : inputDir[n] # "docx"

\* C5 - With no eligible .docx file in the input directory (lock files do
\* not count) the run can only raise FileNotFoundError right after listing:
\* nothing is extracted, estimated or invoked, and no file is ever written;
\* the run directory exists and is empty.
C5_NoFilesNoArtifacts ==
  NoEligibleFiles =>
    /\ pc \in {"start", "list", "raised"}
    /\ pc = "raised" =>
         exc = [class |-> "FileNotFoundError", msg |-> "No .docx files found"]
    /\ DOMAIN files = {}
    /\ dirs \subseteq {<<>>}
    /\ specs = <<>> /\ docx_files = <<>>
    /\ token_summary = <<>>
    /\ progressLog = <<>>
    /\ ~InvokerTouched
    /\ outputs = <<>>

C5_Witness ==
  /\ pc = "raised" /\ exc.class = "FileNotFoundError"
  /\ \E n \in DOMAIN inputDir : inputDir[n] = "lock"
  /\ NoEligibleFiles
  /\ DOMAIN files = {} /\ dirs = {<<>>}

\* C6 - When review_specs has returned a result with error set, run_review
\* can only write error.txt holding exactly that text and raise
\* RuntimeError with it: findings.json and the report are never written
\* and no PipelineOutputs is returned.
C6_InvokerErrorPersisted ==
  (result # <<>> /\ result[1].error # NoneVal) =>
    /\ pc \in {"persist", "raised"}
    /\ "findings.json" \notin ArtifactNames
    /\ "report.docx" \notin ArtifactNames
    /\ outputs = <<>>
    /\ pc = "persist" => "error.txt" \notin ArtifactNames
    /\ pc = "raised" =>
         /\ exc = [class |-> "RuntimeError", msg |-> result[1].error]
         /\ <<"error.txt">> \in DOMAIN files
         /\ files[<<"error.txt">>] = result[1].error

C6_Witness ==
  /\ pc = "raised" /\ exc.class = "RuntimeError"
  /\ result # <<>> /\ result[1].error = "API error"
  /\ <<"error.txt">> \in DOMAIN files
  /\ files[<<"error.txt">>] = "API error"
  /\ "findings.json" \notin ArtifactNames

Transient == {"RateLimitError", "APIConnectionError"}

InsideInvoker == pc \in {"attempt", "exhausted"}

\* C7 - Retry cap and retry-then-success: review_specs never makes more
\* than max_retries attempts and never parses twice; when an attempt
\* succeeds it is the last one, every attempt before it hit a transient
\* condition, the invoker has returned, exactly one parse was made, and if
\* the response was parseable the error is None.
C7_RetryCapThenSuccess ==
  /\ Len(apiCalls) <= max_retries
  /\ parses <= 1
  /\ \A i \in 1..Len(apiCalls) :
       apiCalls[i] = "ok" =>
         /\ i = Len(apiCalls)
         /\ \A j \in 1..(i - 1) : apiCalls[j] \in Transient
         /\ ~InsideInvoker
         /\ parses = 1
         /\ ParseFindings(result[1].raw_response).ok =>
              /\ result[1].error = NoneVal
              /\ result[1].findings =
                   ParseFindings(result[1].raw_response).findings

C7_Witness ==
  /\ apiCalls = <<"RateLimitError", "RateLimitError", "ok">>
  /\ parses = 1
  /\ result[1].error = NoneVal
  /\ result[1].findings # <<>>
  /\ ~InsideInvoker

\* C8 - A non-transient API error or a parse failure is terminal: it is
\* the last attempt, the invoker has returned with the failure recorded in
\* error, and no backoff wait follows it (the only waits are those of the
\* transient failures before it).
C8_TerminalFailures ==
  \A i \in 1..Len(apiCalls) :
    LET parseFailed == apiCalls[i] = "ok"
                         /\ ~ParseFindings(result[1].raw_response).ok
    IN (apiCalls[i] = "APIError" \/ parseFailed) =>
         /\ i = Len(apiCalls)
         /\ ~InsideInvoker
         /\ Len(sleeps) = i - 1
         /\ result[1].error =
              IF parseFailed THEN "Failed to parse response" ELSE "API error"
         /\ result[1].findings = <<>>

C8_Witness ==
  /\ apiCalls = <<"APIConnectionError", "APIError">>
  /\ sleeps = <<5>>
  /\ result[1].error = "API error"
  /\ pc = "raised"

C8_WitnessParse ==
  /\ apiCalls = <<"RateLimitError", "ok">>
  /\ sleeps = <<10>>
  /\ result[1].error = "Failed to parse response"
  /\ pc = "raised"

AllAttemptsTransient ==
  /\ Len(apiCalls) = max_retries
  /\ \A i \in 1..max_retries : apiCalls[i] \in Transient

C9_StatePart ==
  /\ Len(apiCalls) <= max_retries
  /\ AllAttemptsTransient =>
       /\ pc \in {"exhausted", "persist", "raised"}
       /\ Len(sleeps) = max_retries
       /\ pc # "exhausted" =>
            /\ result[1].error =
                 IF apiCalls[max_retries] = "RateLimitError"
                 THEN "Failed after 3 attempts. Last error: RateLimitError"
                 ELSE "Failed after 3 attempts. Last error: APIConnectionError"
            /\ result[1].findings = <<>>

\* C9 - When all max_retries attempts hit a transient condition the loop
\* is left and review_specs returns: no further attempt is ever made, and
\* the result returned has error set to the retries-exhausted message
\* naming the last error, with no findings.
C9_RetriesExhausted ==
  /\ []C9_StatePart
  /\ AllAttemptsTransient ~>
       (pc \in {"persist", "raised"} /\ result # <<>>
          /\ result[1].error # NoneVal /\ result[1].findings = <<>>)

C9_Witness ==
  /\ apiCalls = <<"RateLimitError", "APIConnectionError", "RateLimitError">>
  /\ pc = "raised"
  /\ result[1].error = "Failed after 3 attempts. Last error: RateLimitError"
  /\ result[1].findings = <<>>

\* C10 - ReviewResult invariant: at every point of review_specs and in the
\* result it returns, on every path, error set implies findings empty.
C10_ErrorImpliesNoFindings ==
  result # <<>> =>
    (result[1].error # NoneVal => result[1].findings = <<>>)

C10_Witness ==
  /\ result # <<>>
  /\ result[1].error = "Failed to parse response"
  /\ result[1].raw_response # <<>>
  /\ result[1].findings = <<>>
  /\ ~InsideInvoker

\* C11 - Run-directory exclusivity: any two runs under the same
\* output_dir, started at any times (also within the same clock second),
\* get different run directories, and every artifact lies in a directory
\* that the run which wrote it created.
C11_RunDirExclusive ==
  /\ \A r1, r2 \in Runs :
       (r1 # r2 /\ runDirOf[r1] # NoDir /\ runDirOf[r2] # NoDir)
         => runDirOf[r1] # runDirOf[r2]
  /\ \A w \in written : dirOwner[w.dir] = w.run

\* C12 - Progress monotonicity: the percentages passed to the progress
\* callback never decrease, the first one is 0, none lies outside 0..100,
\* 100 has been reported exactly when the run has returned, and a run
\* that raised has not reported 100.
C12_ProgressMonotone ==
  /\ \A i \in 1..(Len(progressLog) - 1) : progressLog[i] <= progressLog[i + 1]
  /\ progressLog # <<>> => progressLog[1] = 0
  /\ \A i \in 1..Len(progressLog) :
       progressLog[i] >= 0 /\ progressLog[i] <= 10000
  /\ (\E i \in 1..Len(progressLog) : progressLog[i] = 10000) <=> pc = "done"
  /\ pc = "raised" => \A i \in 1..Len(progressLog) : progressLog[i] < 10000

C12_Witness ==
  /\ pc = "raised"
  /\ Len(specs) = 2
  /\ progressLog = <<0, 1750, 3500, 4000, 4500, 5500, 8500>>

----------------------------------------------------------------------------
(* ReviewResult count properties (reviewer.py 41-63) *)

\* ReviewResult.total_count
TotalCount(res) == Len(res.findings)

RECURSIVE SumCounts(_, _)
SumCounts(res, sevs) ==
  IF sevs = <<>> THEN 0
  ELSE CountSeverity(res.findings, Head(sevs)) + SumCounts(res, Tail(sevs))

\* critical_count + high_count + medium_count + low_count + gripes_count
RecognizedCountSum(res) ==
  SumCounts(res, <<"CRITICAL", "HIGH", "MEDIUM", "LOW", "GRIPES">>)

\* The findings of the ReviewResult the invoker has filled in so far.
ParsedFindings == IF result = <<>> THEN <<>> ELSE result[1].findings

\* C13: every Finding produced by parse_findings has existingText null when
\* its actionType is ADD, and replacementText null when it is DELETE.
C13_FindingSchema ==
  \A i \in 1..Len(ParsedFindings) :
    /\ ParsedFindings[i].actionType = "ADD"
         => ParsedFindings[i].existingText = NoneVal
    /\ ParsedFindings[i].actionType = "DELETE"
         => ParsedFindings[i].replacementText = NoneVal

\* C14: total_count of a ReviewResult equals the sum of its five
\* per-severity counts.
C14_SeverityRollup ==
  result # <<>> => TotalCount(result[1]) = RecognizedCountSum(result[1])


\* No two records of a detector's result share filename, line and type.
OnePerTriple(alerts) ==
  \A i, j \in 1..Len(alerts) :
    (/\ alerts[i].filename = alerts[j].filename
     /\ alerts[i].line = alerts[j].line
     /\ alerts[i].type = alerts[j].type) => i = j

\* C15: the list returned by detect_leed_references and the list returned
\* by detect_placeholders each hold at most one record per (filename, line,
\* type), also when a pattern matches several times on one line.
C15_AlertDedup ==
  /\ leedOut # <<>> => OnePerTriple(leedOut[1])
  /\ placeholderOut # <<>> => OnePerTriple(placeholderOut[1])

\* The same property for detect_leed_references alone.
LeedOnePerTriple == leedOut # <<>> => OnePerTriple(leedOut[1])

\* A line that consists of a delimiter header.
IsHeaderLine(line) ==
  Len(line) = 1 /\ \E f \in FileNames : line[1] = Header(f)

HeaderIndices(text) == {i \in 1..Len(text) : IsHeaderLine(text[i])}

\* The k-th smallest member of a set of numbers.
Nth(S, k) == CHOOSE x \in S : Cardinality({y \in S : y < x}) = k - 1

\* Splitting a combined text on its header lines: the lines after each
\* header up to the blank line that precedes the next header, or up to the
\* end of the text after the last header.
SplitOnHeaders(text) ==
  LET H == HeaderIndices(text)
      m == Cardinality(H)
  IN [k \in 1..m |->
        SubSeq(text, Nth(H, k) + 1,
               IF k < m THEN Nth(H, k + 1) - 2 ELSE Len(text))]

RoundTrip(ss, text) ==
  /\ Cardinality(HeaderIndices(text)) = Len(ss)
  /\ \A k \in 1..Len(ss) :
       /\ k <= Cardinality(HeaderIndices(text))
       /\ text[Nth(HeaderIndices(text), k)] = <<Header(ss[k].filename)>>
  /\ SplitOnHeaders(text) = [k \in 1..Len(ss) |-> ss[k].content]

\* C16: the text _combine_specs returns for N specs with distinct filenames
\* has exactly N header lines, the k-th being the header of the k-th spec,
\* and splitting it on the header lines gives back the N contents in order.
C16_DelimiterRoundTrip ==
  combinedOut # <<>> => RoundTrip(docs, combinedOut[1])

\* The same property for specs none of whose content has a header-like line.
RoundTripWithoutHeaderInContent ==
  (/\ combinedOut # <<>>
   /\ \A k \in 1..Len(docs) : HeaderIndices(docs[k].content) = {})
    => RoundTrip(docs, combinedOut[1])

\* C17: the warning of a TokenSummary is absent up to 80% of RECOMMENDED_MAX,
\* a Note above 80% and up to RECOMMENDED_MAX, a WARNING above RECOMMENDED_MAX
\* and up to MAX_CONTEXT_TOKENS, CRITICAL above MAX_CONTEXT_TOKENS;
\* within_limit is total_tokens <= RECOMMENDED_MAX, and it is false exactly
\* when the warning is a WARNING or CRITICAL.
C17_TieredWarning ==
  token_summary # <<>> =>
    LET ts == token_summary[1]
        total == ts.total_tokens
    IN /\ total * 10 <= RECOMMENDED_MAX * 8 => ts.warning_message = NoneVal
       /\ (total * 10 > RECOMMENDED_MAX * 8 /\ total <= RECOMMENDED_MAX)
            => ts.warning_message = "Note"
       /\ (total > RECOMMENDED_MAX /\ total <= MAX_CONTEXT_TOKENS)
            => ts.warning_message = "WARNING"
       /\ total > MAX_CONTEXT_TOKENS => ts.warning_message = "CRITICAL"
       /\ ts.within_limit <=> total <= RECOMMENDED_MAX
       /\ ~ts.within_limit <=> ts.warning_message \in {"WARNING", "CRITICAL"}

\* A summary at exactly RECOMMENDED_MAX: a Note, and within the limit.
C17_Witness ==
  /\ token_summary # <<>>
  /\ token_summary[1].total_tokens = RECOMMENDED_MAX
  /\ token_summary[1].warning_message = "Note"
  /\ token_summary[1].within_limit

\* The other tiers and their edges are reached as well.
C17_WitnessNone ==
  /\ token_summary # <<>>
  /\ token_summary[1].total_tokens * 10 = RECOMMENDED_MAX * 8
  /\ token_summary[1].warning_message = NoneVal

C17_WitnessWarning ==
  /\ token_summary # <<>>
  /\ token_summary[1].total_tokens = MAX_CONTEXT_TOKENS
  /\ token_summary[1].warning_message = "WARNING"
  /\ ~token_summary[1].within_limit

C17_WitnessCritical ==
  /\ token_summary # <<>>
  /\ token_summary[1].warning_message = "CRITICAL"
  /\ ~token_summary[1].within_limit

\* The tokens of the items, added from the last item down.
RECURSIVE ItemTokensUpTo(_, _)
ItemTokensUpTo(items, n) ==
  IF n = 0 THEN 0 ELSE items[n].tokens + ItemTokensUpTo(items, n - 1)

\* C18: a TokenSummary has one item per input spec, in input order, and its
\* total_tokens is system_prompt_tokens plus the tokens of its items.
C18_TokenSummaryTotal ==
  token_summary # <<>> =>
    LET ts == token_summary[1]
    IN /\ Len(ts.items) = Len(specs)
       /\ \A i \in 1..Len(specs) :
            /\ ts.items[i].name = specs[i].filename
            /\ ts.items[i].tokens = EncodeLen(specs[i].content)
       /\ ts.total_tokens =
            ts.system_prompt_tokens + ItemTokensUpTo(ts.items, Len(ts.items))

\* A summary of two specs of different sizes.
C18_Witness ==
  /\ token_summary # <<>>
  /\ Len(token_summary[1].items) = 2
  /\ token_summary[1].items[1].tokens # token_summary[1].items[2].tokens
  /\ token_summary[1].total_tokens =
       token_summary[1].system_prompt_tokens
         + token_summary[1].items[1].tokens + token_summary[1].items[2].tokens

\* The text parse_findings searches has no opening or no closing bracket.
NoArrayDelimiters(text) ==
  \/ \A i \in 1..Len(text) : text[i] # "["
  \/ \A i \in 1..Len(text) : text[i] # "]"

\* C20: when the response has no array delimiters, parse_findings returns
\* an empty list without error if the response says "no issues" or is
\* empty, and fails on any other such response.
C20_NoArrayResponse ==
  (result # <<>> /\ parses > 0
     /\ NoArrayDelimiters(StripFences(result[1].raw_response))) =>
    IF \/ \E i \in 1..Len(result[1].raw_response) :
            result[1].raw_response[i] = "no issues"
       \/ result[1].raw_response = <<>>
    THEN result[1].error = NoneVal /\ result[1].findings = <<>>
    ELSE result[1].error = "Failed to parse response"

\* The same property with the empty response left out.
NoArrayResponseNonEmpty ==
  (result # <<>> /\ parses > 0 /\ result[1].raw_response # <<>>
     /\ NoArrayDelimiters(StripFences(result[1].raw_response))) =>
    IF \E i \in 1..Len(result[1].raw_response) :
         result[1].raw_response[i] = "no issues"
    THEN result[1].error = NoneVal /\ result[1].findings = <<>>
    ELSE result[1].error = "Failed to parse response"

\* The elements of the JSON array in a response, when it holds one.
ResponseHasArray(response_text) ==
  LET text == StripFences(response_text)
  IN /\ Find(text, "[") # 0 /\ RFind(text, "]") # 0
     /\ JsonIsArray(SubSeq(text, Find(text, "["), RFind(text, "]")))

ResponseElements(response_text) ==
  LET text == StripFences(response_text)
  IN JsonItems(SubSeq(text, Find(text, "["), RFind(text, "]")))

\* Finding f is what element tok gives: the keys it has, null for a missing
\* optional key.
CoercedFrom(f, tok) ==
  LET d == ItemDict(tok)
  IN /\ \A k \in DOMAIN d : f[k] = d[k]
     /\ \A k \in {"existingText", "replacementText", "codeReference"} \ DOMAIN d :
          f[k] = NoneVal

\* C21: for a response that holds a JSON array, parse_findings does not
\* fail, and returns one Finding per element that is an object, in array
\* order, the other elements being skipped and missing optional fields null.
C21_PartialParse ==
  (result # <<>> /\ parses > 0 /\ ResponseHasArray(result[1].raw_response)) =>
    LET data == ResponseElements(result[1].raw_response)
        objs == {i \in 1..Len(data) : data[i] \in DictTokens}
        fs == result[1].findings
    IN /\ result[1].error = NoneVal
       /\ Len(fs) = Cardinality(objs)
       /\ \A k \in 1..Cardinality(objs) :
            k <= Len(fs) /\ CoercedFrom(fs[k], data[Nth(objs, k)])

\* An array whose second element is not an object: the first and the third
\* are returned, the third with every field defaulted.
C21_Witness ==
  /\ result # <<>> /\ parses > 0
  /\ ResponseHasArray(result[1].raw_response)
  /\ ResponseElements(result[1].raw_response) = <<"D_ADD", "X", "D_MIN">>
  /\ Len(result[1].findings) = 2
  /\ result[1].findings[1].severity = "HIGH"
  /\ result[1].findings[2].existingText = NoneVal
  /\ result[1].findings[2].actionType = "EDIT"

FindingsJsonPath == <<"findings.json">>

\* C22: the findings.json of a live run has the top-level keys meta,
\* summary, alerts and findings, and its meta has model, input_tokens,
\* output_tokens, elapsed_seconds and files_reviewed.
C22_FindingsJsonShape ==
  (~dry_run /\ FindingsJsonPath \in DOMAIN files) =>
    /\ DOMAIN files[FindingsJsonPath] = {"meta", "summary", "alerts", "findings"}
    /\ {"model", "input_tokens", "output_tokens", "elapsed_seconds",
        "files_reviewed"} \subseteq DOMAIN files[FindingsJsonPath].meta

\* What the file does have: meta without files_reviewed, findings, alerts.
FindingsJsonAsWritten ==
  (~dry_run /\ FindingsJsonPath \in DOMAIN files) =>
    /\ DOMAIN files[FindingsJsonPath] = {"meta", "alerts", "findings"}
    /\ DOMAIN files[FindingsJsonPath].meta =
         {"model", "input_tokens", "output_tokens", "elapsed_seconds"}
    /\ DOMAIN files[FindingsJsonPath].alerts =
         {"leed_alerts", "placeholder_alerts"}

\* C23: on the same documents, run_review and the CLI review command give
\* analyze_token_usage the same per-file texts, decide the same way at the
\* token gate, and send review_specs the same combined text.
C23_FrontEndsAgree ==
  (pipelineFeed # <<>> /\ cliFeed # <<>>) =>
    /\ pipelineFeed[1].spec_contents = cliFeed[1].spec_contents
    /\ pipelineFeed[1].within_limit = cliFeed[1].within_limit
    /\ pipelineFeed[1].sent = cliFeed[1].sent

\* The gate decision alone.
FrontEndsSameDecision ==
  (pipelineFeed # <<>> /\ cliFeed # <<>>) =>
    pipelineFeed[1].within_limit = cliFeed[1].within_limit

\* The same property for documents without boilerplate.
FrontEndsAgreeWithoutBoilerplate ==
  (/\ pipelineFeed # <<>> /\ cliFeed # <<>>
   /\ \A k \in 1..Len(docs) : StripBoilerplate(docs[k].content) = docs[k].content)
    => /\ pipelineFeed[1].spec_contents = cliFeed[1].spec_contents
       /\ pipelineFeed[1].within_limit = cliFeed[1].within_limit
       /\ pipelineFeed[1].sent = cliFeed[1].sent

\* The run has called generate_report and ended.
ReportStepTaken ==
  Ended /\ Admitted /\ (dry_run \/ (result # <<>> /\ result[1].error = NoneVal))

NoRunReturnsOutputs == outputs = <<>> /\ pc # "done"

ReportPathDiffers ==
  ReportPath(Join(RunDir, "report.docx")) # Join(RunDir, "report.docx")

\* C25: every backoff wait of review_specs is followed by another attempt:
\* once the retry loop is left, the waits are fewer than the API calls.
C25_WaitThenRetry ==
  (pc # "attempt" /\ sleeps # <<>>) => Len(sleeps) < Len(apiCalls)

\* The same property for the waits before the last attempt.
WaitThenRetryBeforeLast ==
  \A i \in 1..Len(sleeps) :
    (i < max_retries /\ pc # "attempt") => i < Len(apiCalls)

\* The delays in seconds by 0-based attempt index, per condition.
RateLimitDelays == <<10, 20, 40>>

ConnectionDelays == <<5, 10, 20>>

\* C26: the wait after the failed attempt with 0-based index a is 10 * 2^a
\* seconds for a rate limit and 5 * 2^a seconds for a connection failure,
\* whatever the conditions of the other attempts were.
C26_BackoffDelays ==
  /\ Len(sleeps) <= Len(apiCalls)
  /\ \A i \in 1..Len(sleeps) :
       /\ apiCalls[i] \in {"RateLimitError", "APIConnectionError"}
       /\ apiCalls[i] = "RateLimitError" => sleeps[i] = RateLimitDelays[i]
       /\ apiCalls[i] = "APIConnectionError" => sleeps[i] = ConnectionDelays[i]
       /\ i > 1 /\ apiCalls[i] = apiCalls[i - 1] => sleeps[i] = 2 * sleeps[i - 1]

\* A mixed sequence: connection failure, rate limit, connection failure.
C26_Witness ==
  /\ apiCalls = <<"APIConnectionError", "RateLimitError", "APIConnectionError">>
  /\ sleeps = <<5, 20, 20>>

\* The attempts review_specs has made: the failed ones the loop has counted,
\* and the one that ended the loop by answering or by a terminal error.
AttemptsMade ==
  attempt + (IF apiCalls # <<>> /\ apiCalls[Len(apiCalls)] \notin Transient
             THEN 1 ELSE 0)

\* review_specs has returned after it built a client.
ReturnedWithClient ==
  result # <<>> /\ api_key_set /\ pc \in {"persist", "report", "done", "raised"}

\* A step of review_specs leaves the run directory and the progress alone.
InvokerStepIsQuiet ==
  pc \in {"invoke", "attempt", "exhausted"} =>
    (files' = files /\ dirs' = dirs /\ progressLog' = progressLog)

ErrorTxtPath == <<"error.txt">>

\* C28: without an API key, review_specs returns a result with the error
\* set and no findings, having made no API call, waited for no backoff and
\* parsed nothing; run_review then writes error.txt and raises.
C28_NoApiKey ==
  (~api_key_set /\ result # <<>>) =>
    /\ result[1].error = "ANTHROPIC_API_KEY environment variable not set."
    /\ result[1].findings = <<>>
    /\ apiCalls = <<>> /\ sleeps = <<>> /\ parses = 0 /\ attempt = 0
    /\ pc \in {"persist", "raised"}
    /\ pc = "raised" =>
         /\ exc.class = "RuntimeError"
         /\ ErrorTxtPath \in DOMAIN files
         /\ files[ErrorTxtPath] = result[1].error
         /\ FindingsJsonPath \notin DOMAIN files

C28_Witness ==
  /\ ~api_key_set /\ result # <<>>
  /\ pc = "raised"
  /\ ErrorTxtPath \in DOMAIN files
  /\ apiCalls = <<>>

ExtractionFailed ==
  [class |-> "ValueError", msg |-> "Invalid or corrupted .docx file"]

\* C29: when the extraction of a file fails the run ends there with that
\* exception: the file and those after it are not extracted, no
\* token_summary.json or inputs_combined.txt is written, the gate is not
\* evaluated and review_specs is not called.
C29_ExtractionFailureFatal ==
  exc = ExtractionFailed =>
    /\ pc = "raised"
    /\ Len(specs) < Len(docx_files)
    /\ \A i \in 1..Len(progressLog) : progressLog[i] < 3500
    /\ token_summary = <<>>
    /\ combined = <<>>
    /\ files = <<>>
    /\ ~InvokerTouched
    /\ outputs = <<>>

\* The second of two files fails: one spec extracted, nothing written.
C29_Witness ==
  /\ exc = ExtractionFailed
  /\ Len(docx_files) = 2
  /\ Len(specs) = 1
  /\ Len(progressLog) = 2
  /\ files = <<>>

\* The filenames of a list of alert records never go down.
FileOrderKept(alerts) ==
  \A i, j \in 1..Len(alerts) : i < j => alerts[i].filename <= alerts[j].filename

\* The header lines of a text, top to bottom.
HeadersOf(text) ==
  [k \in 1..Cardinality(HeaderIndices(text)) |-> text[Nth(HeaderIndices(text), k)][1]]

\* C30: the files are extracted in ascending filename order, with one
\* progress report after each, and the token-summary items, the two alert
\* lists and the blocks of the combined text keep that order.
C30_FilenameOrder ==
  /\ \A i, j \in 1..Len(docx_files) : i < j => docx_files[i] < docx_files[j]
  /\ Len(specs) <= Len(docx_files)
  /\ \A i \in 1..Len(specs) : specs[i].filename = docx_files[i]
  /\ pc = "extract" => Len(progressLog) = 1 + Len(specs)
  /\ \A i \in 1..Len(specs) :
       /\ i + 1 <= Len(progressLog)
       /\ progressLog[i + 1] = (i * 3500) \div Len(docx_files)
  /\ token_summary # <<>> =>
       [i \in 1..Len(token_summary[1].items) |-> token_summary[1].items[i].name]
         = docx_files
  /\ FileOrderKept(leed_alerts)
  /\ FileOrderKept(placeholder_alerts)
  /\ combined # <<>> =>
       HeadersOf(combined) = [i \in 1..Len(docx_files) |-> Header(docx_files[i])]

\* Two files, each with a placeholder alert, combined.
C30_Witness ==
  /\ Len(docx_files) = 2
  /\ combined # <<>>
  /\ token_summary # <<>>
  /\ Len(placeholder_alerts) = 2
  /\ placeholder_alerts[1].filename < placeholder_alerts[2].filename
  /\ Len(leed_alerts) = 1

----------------------------------------------------------------------------
InputsCombinedPath == Join(RunDir, "inputs_combined.txt")

\* C31: in every live run that reaches the invoker, inputs_combined.txt is
\* already written when review_specs is called, and from then on its content
\* is the combined text handed to review_specs: one header per extracted
\* file, in order, each followed by that file's text.
C31_CombinedSnapshot ==
  (~dry_run /\ (pc = "invoke" \/ InvokerTouched)) =>
    /\ InputsCombinedPath \in DOMAIN files
    /\ files[InputsCombinedPath] = combined
    /\ RoundTrip(SpecTexts(specs), files[InputsCombinedPath])

\* review_specs was entered and made a call, after two files were combined.
C31_Witness ==
  /\ ~dry_run
  /\ apiCalls # <<>>
  /\ Len(specs) = 2
  /\ InputsCombinedPath \in DOMAIN files
  /\ files[InputsCombinedPath] = combined

\* C32: the combined text is computed and written only after the admission
\* gate has passed and only on the live branch: a run still at the gate, a
\* run the gate rejected and a dry run have no combined-input artifact.
C32_CombineAfterGate ==
  (combined # <<>> \/ InputsCombinedPath \in DOMAIN files) =>
    /\ ~dry_run
    /\ token_summary # <<>> /\ token_summary[1].within_limit
    /\ pc \notin {"combine", "admit"}

\* The part of C32 the code keeps: the phases up to the gate come in the
\* documented order, and the invoker runs only after the gate passed.
PhaseOrderUpToGate ==
  /\ pc \in {"combine", "admit"} => token_summary # <<>>
  /\ token_summary # <<>> => Len(specs) = Len(docx_files)
  /\ InvokerTouched => (~dry_run /\ token_summary[1].within_limit)

\* Every run the gate rejected has written inputs_combined.txt.
RejectedRunHasCombined ==
  (pc = "raised" /\ exc = TokenLimitExceeded) =>
    InputsCombinedPath \in DOMAIN files

\* A response made of a narrative preamble, whose tokens are drawn from
\* narrative, and one array of finding objects after it.  The array is flat,
\* so it starts at the last opening bracket of the response.
IsFindingArray(js) ==
  /\ JsonIsArray(js)
  /\ \A i \in 1..Len(JsonItems(js)) : JsonItems(js)[i] \in DictTokens

PreambleThenArray(response_text, narrative) ==
  LET k == RFind(response_text, "[")
  IN /\ k # 0
     /\ \A i \in 1..(k - 1) : response_text[i] \in narrative
     /\ IsFindingArray(SubSeq(response_text, k, Len(response_text)))

ArrayAfterPreamble(response_text) ==
  JsonItems(SubSeq(response_text, RFind(response_text, "["),
                   Len(response_text)))

ReturnsArrayFindings ==
  LET data == ArrayAfterPreamble(result[1].raw_response)
      fs == result[1].findings
  IN /\ result[1].error = NoneVal
     /\ Len(fs) = Len(data)
     /\ \A i \in 1..Len(data) : i <= Len(fs) /\ CoercedFrom(fs[i], data[i])

\* C33 as stated: for a response made of any narrative preamble, brackets
\* in the prose included, followed by one valid JSON array of finding
\* objects, parse_findings returns exactly the findings of that array.
C33_PreambleTolerance ==
  (/\ result # <<>> /\ parses > 0
   /\ PreambleThenArray(result[1].raw_response, {"pre", "[", "]"}))
    => ReturnsArrayFindings

\* C33 amended: the same for a preamble that holds no square bracket.
C33_BracketFreePreamble ==
  (/\ result # <<>> /\ parses > 0
   /\ PreambleThenArray(result[1].raw_response, {"pre"}))
    => ReturnsArrayFindings

\* A response with a preamble and an array of two objects was parsed.
C33_Witness ==
  /\ result # <<>> /\ parses > 0
  /\ result[1].raw_response = <<"pre", "[", "D_ADD", ",", "D_DEL", "]">>
  /\ Len(result[1].findings) = 2
  /\ result[1].findings[2].actionType = "DELETE"

\* The text the extractor returned for each file, in extraction order.
ExtractedTexts ==
  [i \in 1..Len(specs) |->
     [filename |-> docx_files[i], content |-> SampleText(specs[i].content)]]

\* A step leaves every spec already extracted as it is.
SpecsKept ==
  /\ Len(specs') >= Len(specs)
  /\ \A i \in 1..Len(specs) : specs'[i] = specs[i]

\* C34: the alerts are advisory.  Detection changes no extracted spec, and
\* the combined text holds every file's text whole, the lines that raised an
\* alert included: splitting it on its headers gives back the texts.
C34_AlertsAdvisory ==
  /\ [][SpecsKept]_vars
  /\ [](combined # <<>> => RoundTrip(ExtractedTexts, combined))

\* A combined text of a file that raised a LEED alert and a placeholder
\* alert, with the LEED line in it.
C34_Witness ==
  /\ combined # <<>>
  /\ Len(leed_alerts) > 0 /\ Len(placeholder_alerts) > 0
  /\ \E i \in 1..Len(combined) : combined[i] = <<"LEED", "word">>

\* The finding entries of a built report, top to bottom.
FindingEntries ==
  SelectSeq(reportDoc[1].findings, LAMBDA para : para.style = "Finding")

Occurrences(seq, x) == Cardinality({i \in 1..Len(seq) : seq[i] = x})

SeverityRank(sev) ==
  CHOOSE k \in 1..Len(SEVERITY_ORDER) : SEVERITY_ORDER[k] = sev

FindingsRenderedOnce ==
  LET entries == FindingEntries
      rendered == [i \in 1..Len(entries) |-> entries[i].text[2]]
  IN /\ Len(entries) = reportDoc[1].summary.total
     /\ \A k \in 1..Len(reportFindings) :
          Occurrences(rendered, reportFindings[k])
            = Occurrences(reportFindings, reportFindings[k])
     /\ \A i, j \in 1..Len(rendered) :
          i < j => /\ rendered[i].severity \in Severities
                   /\ rendered[j].severity \in Severities
                   /\ SeverityRank(rendered[i].severity)
                        <= SeverityRank(rendered[j].severity)

\* C35: the report lists the findings by severity in the order CRITICAL,
\* HIGH, MEDIUM, LOW, GRIPES, each finding of the ReviewResult once, so the
\* number of finding entries is the total_count of the summary table.
C35_FindingsRendered ==
  reportDoc # <<>> => FindingsRenderedOnce

\* The same, for findings whose severity is one of the five.
FindingsRenderedWhenRecognized ==
  (/\ reportDoc # <<>>
   /\ \A k \in 1..Len(reportFindings) :
        reportFindings[k].severity \in Severities)
    => FindingsRenderedOnce

\* A report of three findings, the last of them CRITICAL and listed first.
RecognizedFindingsReported ==
  /\ reportDoc # <<>>
  /\ Len(reportFindings) = 3
  /\ reportFindings[3].severity = "CRITICAL"
  /\ reportFindings[1].severity = "GRIPES"
  /\ Len(FindingEntries) = 3
  /\ FindingEntries[1].text[2].severity = "CRITICAL"

\* The paragraphs of one category of the alerts section: those below its
\* heading, up to the next category heading or the end of the section.
CategoryBlock(section, heading) ==
  LET h == CHOOSE i \in 1..Len(section) :
             /\ section[i].style = "Heading 2"
             /\ section[i].text = <<heading>>
      later == {i \in (h + 1)..Len(section) : section[i].style = "Heading 2"}
      e == IF later = {} THEN Len(section) + 1
           ELSE CHOOSE i \in later : \A j \in later : i <= j
  IN SubSeq(section, h + 2, e - 1)

\* The groups of a block: each file-name paragraph with the bullets below it.
GroupStarts(block) == {i \in 1..Len(block) : block[i].style = "Bold"}

GroupBullets(block, i) ==
  LET later == {j \in GroupStarts(block) : j > i}
      e == IF later = {} THEN Len(block) + 1
           ELSE CHOOSE j \in later : \A k \in later : j <= k
  IN SubSeq(block, i + 1, e - 1)

IsRemainderLine(para) ==
  para.style = "List Bullet" /\ para.text[1] = "... and"

\* One category of the section shows its alerts as C36 says.
CategoryShown(section, heading, alerts) ==
  LET block == CategoryBlock(section, heading)
      names == {alerts[i].filename : i \in 1..Len(alerts)}
  IN /\ \A f \in names :
          Cardinality({i \in GroupStarts(block) : block[i].text = <<f>>}) = 1
     /\ \A i \in GroupStarts(block) : block[i].text[1] \in names
     /\ \A i \in GroupStarts(block) :
          LET mine == ByFile(alerts, block[i].text[1])
              n == Len(mine)
              bullets == GroupBullets(block, i)
              listed == SelectSeq(bullets, LAMBDA b : ~IsRemainderLine(b))
              rest == SelectSeq(bullets, IsRemainderLine)
          IN /\ Len(listed) <= DisplayLimit
             /\ \A k \in 1..Len(listed) :
                  /\ k <= n
                  /\ listed[k].text = <<"Line", mine[k].line, mine[k].text>>
             /\ IF n > DisplayLimit
                THEN /\ Len(rest) = 1
                     /\ rest[1].text = <<"... and", n - DisplayLimit, "more">>
                     /\ bullets[Len(bullets)] = rest[1]
                     /\ Len(listed) + rest[1].text[2] = n
                ELSE Len(rest) = 0 /\ Len(listed) = n

\* C36: in the alerts section each category's alerts are grouped by
\* filename, at most 5 are listed per file, and a file with n > 5 alerts gets
\* exactly one more line, '... and (n-5) more', so that the alerts listed and
\* the remainder stated add up to n for every file.
C36_AlertsCapped ==
  reportDoc # <<>> =>
    /\ reportLeed # <<>> =>
         CategoryShown(reportDoc[1].alerts, "LEED References Detected",
                       reportLeed)
    /\ reportPlaceholder # <<>> =>
         CategoryShown(reportDoc[1].alerts, "Unresolved Placeholders",
                       reportPlaceholder)
    /\ (reportLeed = <<>> /\ reportPlaceholder = <<>>) =>
         reportDoc[1].alerts = <<>>

\* A file with six LEED alerts: a remainder line '... and 1 more'.
C36_Witness ==
  /\ reportDoc # <<>>
  /\ Len(reportLeed) = 6
  /\ \A i \in 1..6 : reportLeed[i].filename = 1
  /\ \E i \in 1..Len(reportDoc[1].alerts) :
       /\ reportDoc[1].alerts[i].style = "List Bullet"
       /\ reportDoc[1].alerts[i].text = <<"... and", 1, "more">>

\* Two files in each category, neither over the limit.
TwoFilesPerCategoryReported ==
  /\ reportDoc # <<>>
  /\ Len(reportLeed) = 3 /\ Len(reportPlaceholder) = 3
  /\ reportLeed[1].filename # reportLeed[2].filename
  /\ reportPlaceholder[1].filename # reportPlaceholder[3].filename

\* C37: in every run that reaches the invoker, the model named in
\* token_summary.json is the model review_specs uses and records in
\* ReviewResult.model, and so the model named in the meta of findings.json.
C37_ModelConsistency ==
  result # <<>> =>
    /\ TokenSummaryPath \in DOMAIN files
    /\ files[TokenSummaryPath].model = result[1].model
    /\ FindingsJsonPath \in DOMAIN files =>
         files[FindingsJsonPath].meta.model = files[TokenSummaryPath].model

\* What the code keeps: findings.json names the model of the ReviewResult.
FindingsJsonNamesResultModel ==
  (result # <<>> /\ FindingsJsonPath \in DOMAIN files) =>
    files[FindingsJsonPath].meta.model = result[1].model

\* A step that starts a review thread or rewrites ANTHROPIC_API_KEY is
\* taken when no review thread is running.
KeyWrittenOnlyWhenIdle ==
  (Len(reviewThreads') > Len(reviewThreads) \/ environKey' # environKey)
    => Running(reviewThreads) = {}

\* C38: whatever the clicks, completions and errors, at most one review
\* worker thread is running at a time, and ANTHROPIC_API_KEY is not
\* rewritten while one is running: a running thread finds in the environment
\* the key its review was started with.
C38_OneReviewAtATime ==
  /\ [](Cardinality(Running(reviewThreads)) <= 1)
  /\ [](\A t \in Running(reviewThreads) : reviewThreads[t].key = environKey)
  /\ [][KeyWrittenOnlyWhenIdle]_vars

\* A second review running with another key, after the first one failed,
\* and a review running while the Run button is enabled again.
C38_Witness ==
  /\ Len(reviewThreads) = 2
  /\ reviewThreads[1].state = "ended"
  /\ reviewThreads[2].state = "running"
  /\ reviewThreads[1].key # reviewThreads[2].key
  /\ run_button.enabled
  /\ api_key_entry # environKey

\* Every review thread has ended and the main loop has nothing left to run.
ReviewsSettled ==
  /\ reviewThreads # <<>>
  /\ Running(reviewThreads) = {}
  /\ tkQueue = <<>>

GaugeFor(file_data, selected) ==
  [token_count |-> EncodeLen(SYSTEM_PROMPT)
                     + SelectedTokens(file_data, selected),
   file_count  |-> Cardinality(selected)]

CanRunFor(file_data, selected) ==
  /\ GaugeFor(file_data, selected).token_count <= RECOMMENDED_MAX
  /\ selected # {}

\* The view shows folder f: its file data is stored and listed, and the
\* gauge and the Run button were computed from it, for some selection of its
\* files.
ViewShows(f) ==
  LET file_data == FileData(f, folders[f])
  IN /\ loaded_file_data = file_data
     /\ file_list_panel.files = file_data
     /\ \E selected \in SUBSET PathsOf(file_data) :
          token_gauge = GaugeFor(file_data, selected)
     /\ \E selected \in SUBSET PathsOf(file_data) :
          run_button.enabled = CanRunFor(file_data, selected)

\* Two analyses overlapped, both of folders whose files can be read, and
\* both are over with their callbacks run.
OverlappedAnalysesOver ==
  /\ \E t \in 1..Len(analyzeThreads) : analyzeThreads[t].overlap
  /\ Analyzing(analyzeThreads) = {}
  /\ tkQueue = <<>>
  /\ \A t \in 1..Len(analyzeThreads) :
       FileData(analyzeThreads[t].folder,
                folders[analyzeThreads[t].folder]) # <<>>
  /\ input_dir = <<analyzeThreads[Len(analyzeThreads)].folder>>

\* C40: when a second folder is chosen while the first is still being
\* analysed, then once both analysis threads have finished the file list,
\* the token gauge, the Run button and _loaded_file_data all describe the
\* folder chosen last.
C40_LastFolderShown ==
  OverlappedAnalysesOver => ViewShows(input_dir[1])

\* The same for analyses that did not overlap, which the code keeps.
LastFolderShownWithoutOverlap ==
  (/\ analyzeThreads # <<>>
   /\ \A t \in 1..Len(analyzeThreads) : ~analyzeThreads[t].overlap
   /\ Analyzing(analyzeThreads) = {}
   /\ tkQueue = <<>>
   /\ \A t \in 1..Len(analyzeThreads) :
        FileData(analyzeThreads[t].folder,
                 folders[analyzeThreads[t].folder]) # <<>>
   /\ input_dir = <<analyzeThreads[Len(analyzeThreads)].folder>>)
    => ViewShows(input_dir[1])

====
